---- MODULE Spec2Model ----
(***************************************************************************)
(* State-machine model of the MIQP planner of modules/planning/planner/miqp *)
(* (MiqpPlanner::Init, MiqpPlanner::PlanOnReferenceLine and the helpers     *)
(* they call).                                                              *)
(*                                                                          *)
(* Units: speeds are integers in 0.1 m/s, lengths in 0.1 m, times in        *)
(* 0.01 s, the minimum fraction of valid points in quarters.                *)
(* Velocities are restricted to the axes (vx = 0 or vy = 0) with ay = 0,    *)
(* headings are counted in quarter turns; atan2, cos and sin of the decoder *)
(* are exact there up to the rounding of cos(pi/2).                         *)
(*                                                                          *)
(* The trajectory smoother (TrajectorySmootherNLOpt) is modelled in two     *)
(* further specifications over the same variables: SpecSmoother for the     *)
(* calls InitializeProblem and Optimize on one object, SpecModel for the    *)
(* step model and IntegrateModel.                                           *)
(***************************************************************************)
EXTENDS Integers, Sequences, FiniteSets, TLC

VARIABLES
  phase,       \* "constructed" | "ready" | "failed" | "stopped": lifecycle of the object
  config_,     \* MiqpPlanner::config_
  planner_,    \* MiqpPlanner::planner_ : the solver engine behind the C handle
  firstrun_,   \* MiqpPlanner::firstrun_
  egoCarIdx_,  \* MiqpPlanner::egoCarIdx_
  rli,         \* the ReferenceLineInfo handed to the planner (published trajectory)
  call         \* the locals of the current call, or of the last one once it returned

vars == <<phase, config_, planner_, firstrun_, egoCarIdx_, rli, call>>

\* ------------------------------------------------------------------ bounds
\* Number of obstacles in the largest frame.
MaxObstacles == 2

\* -------------------------------------------------------- program constants
\* minimum_valid_speed_planning_ = 1.0 m/s
minimum_valid_speed_planning_ == 10
\* standstill_velocity_threshold_ = 0.1 m/s
standstill_velocity_threshold_ == 1
\* minimum_valid_speed_vx_vy_ = 0.5 m/s
minimum_valid_speed_vx_vy_ == 5
\* default of MiqpPlannerSettings::nr_steps
DefaultNrSteps == 20
\* default of MiqpPlannerSettings::ts = 0.25 s, in 0.01 s
DefaultTs == 25
\* common::VehicleConfigHelper: the vehicle's parameters (0.1 m)
VehicleParam == [width |-> 20, length |-> 45, back_edge_to_center |-> 10]
\* the invalid index: egoCarIdx_ after Init, and the engine's failure sentinel
InvalidIdx == -1

\* fortiss::PlannerState
DRIVING_TRAJECTORY == "DRIVING"
START_TRAJECTORY == "START"
STOP_TRAJECTORY == "STOP"
STANDSTILL_TRAJECTORY == "STANDSTILL"
PlannerState ==
  {DRIVING_TRAJECTORY, START_TRAJECTORY, STOP_TRAJECTORY, STANDSTILL_TRAJECTORY}

\* common::Status
StatusOK == [code |-> "OK", msg |-> ""]
PlanningError(m) == [code |-> "PLANNING_ERROR", msg |-> m]

Max(a, b) == IF a >= b THEN a ELSE b
Abs(a) == IF a >= 0 THEN a ELSE -a

\* ------------------------------------------------------------ configuration
\* FLAGS_default_cruise_speed, a process flag (0.1 m/s)
CruiseSpeeds == {50}

\* A default-constructed PlanningConfig: no field is set.
EmptyConfig ==
  [has_miqp_planner_config |-> FALSE,
   has_nr_steps |-> FALSE, nr_steps |-> 0,
   has_ts |-> FALSE, ts |-> 0,
   has_collision_radius_add |-> FALSE, collision_radius_add |-> 0,
   minimum_percentage_valid_miqp_points |-> 0,
   consider_obstacles |-> FALSE,
   use_environment_polygon |-> FALSE,
   use_smoothing |-> FALSE,
   distance_start_slowdown |-> 0,
   distance_stop_before |-> 0,
   delta_s_desired |-> 0,
   pts_offset_x |-> 0, pts_offset_y |-> 0,
   extension_length_static |-> 0, extension_width_static |-> 0,
   extension_length_dynamic |-> 0,
   merge_static_obstacles |-> FALSE,
   static_obstacle_distance_criteria |-> 0,
   default_cruise_speed |-> 0]

\* The configurations Init is called with: none of the planner's, every
\* combination of the three switches, and two with other distances and the
\* whole horizon as the minimum (4/4), of the default and of a longer horizon.
FlagConfigs ==
  [has_miqp_planner_config : {TRUE},
   has_nr_steps : {TRUE}, nr_steps : {DefaultNrSteps},
   has_ts : {TRUE}, ts : {50},
   has_collision_radius_add : {TRUE}, collision_radius_add : {5},
   minimum_percentage_valid_miqp_points : {2},
   consider_obstacles : BOOLEAN,
   use_environment_polygon : BOOLEAN,
   use_smoothing : BOOLEAN,
   distance_start_slowdown : {40},
   distance_stop_before : {30},
   delta_s_desired : {70},
   pts_offset_x : {10}, pts_offset_y : {0},
   extension_length_static : {6}, extension_width_static : {0},
   extension_length_dynamic : {10},
   merge_static_obstacles : {TRUE},
   static_obstacle_distance_criteria : {20},
   default_cruise_speed : CruiseSpeeds]

AltConfigs ==
  {[EmptyConfig EXCEPT
      !.has_miqp_planner_config = TRUE,
      !.has_nr_steps = TRUE, !.nr_steps = n,
      !.minimum_percentage_valid_miqp_points = 4,
      !.distance_start_slowdown = 0,
      !.distance_stop_before = 50,
      !.delta_s_desired = 20,
      !.default_cruise_speed = 80] : n \in {DefaultNrSteps, DefaultNrSteps + 4}}

Configs == {EmptyConfig} \cup AltConfigs \cup FlagConfigs

\* MiqpPlanner::DefaultSettings: the member config_ decides every field.
DefaultSettings ==
  [nr_steps |-> IF config_.has_nr_steps THEN config_.nr_steps ELSE DefaultNrSteps,
   ts |-> IF config_.has_ts THEN config_.ts ELSE DefaultTs,
   collisionRadius |->
     VehicleParam.width \div 2 +
     (IF config_.has_collision_radius_add THEN config_.collision_radius_add ELSE 0)]

\* ------------------------------------------------------------ solver engine
\* The indices the engine may hand out for the ego car.
CarIdxValues == {0, 1}

\* NewCMiqpPlannerSettings: a fresh engine with no agent and no obstacle.
\* calls is the log of the operations of the current call, in order.
NewCMiqpPlannerSettings(settings) ==
  [N |-> settings.nr_steps, ts |-> settings.ts, radius |-> settings.collisionRadius,
   cars |-> <<>>, obstacles |-> <<>>, calls |-> <<>>]

NoEngine == [N |-> 0, ts |-> 0, radius |-> 0,
             cars |-> <<>>, obstacles |-> <<>>, calls |-> <<>>]

GetNCMiqpPlanner(eng) == eng.N
GetTsCMiqpPlanner(eng) == eng.ts
GetCollisionRadius(eng) == eng.radius

\* An entry of the log: the operation f with its arguments; idx is the index
\* passed or returned, ok the flag returned, fresh tells for each obstacle the
\* engine holds whether it was registered in this call.
NoCall == [f |-> "none", idx |-> InvalidIdx, vDes |-> 0, deltaSDes |-> 0,
           track |-> FALSE, state |-> <<>>, ok |-> TRUE, fresh |-> <<>>]

\* AddCarCMiqpPlanner: the engine adds an agent and returns its index.
AddCarCMiqpPlanner(eng, initial_state, vDes, deltaSDes, track_ref_pos, idx) ==
  [eng EXCEPT
     !.cars = Append(@, [idx |-> idx, state |-> initial_state, vDes |-> vDes,
                         deltaSDes |-> deltaSDes, track |-> track_ref_pos]),
     !.calls = Append(@, [NoCall EXCEPT !.f = "AddCar", !.idx = idx,
                            !.vDes = vDes, !.deltaSDes = deltaSDes,
                            !.track = track_ref_pos, !.state = initial_state])]

\* UpdateCarCMiqpPlanner: state, reference and tracking flag of agent idx.
UpdateCarCMiqpPlanner(eng, idx, initial_state, track_ref_pos) ==
  [eng EXCEPT
     !.cars = [i \in DOMAIN @ |->
                 IF @[i].idx = idx
                 THEN [@[i] EXCEPT !.state = initial_state, !.track = track_ref_pos]
                 ELSE @[i]],
     !.calls = Append(@, [NoCall EXCEPT !.f = "UpdateCar", !.idx = idx,
                            !.track = track_ref_pos, !.state = initial_state])]

\* UpdateDesiredVelocityCMiqpPlanner: desired speed and offset of agent idx.
UpdateDesiredVelocityCMiqpPlanner(eng, idx, vDes, deltaSDes) ==
  [eng EXCEPT
     !.cars = [i \in DOMAIN @ |->
                 IF @[i].idx = idx
                 THEN [@[i] EXCEPT !.vDes = vDes, !.deltaSDes = deltaSDes]
                 ELSE @[i]],
     !.calls = Append(@, [NoCall EXCEPT !.f = "UpdateDesiredVelocity", !.idx = idx,
                            !.vDes = vDes, !.deltaSDes = deltaSDes])]

\* UpdateConvexifiedMapCMiqpPlaner: the road polygon of this cycle.
UpdateConvexifiedMapCMiqpPlaner(eng) ==
  [eng EXCEPT !.calls = Append(@, [NoCall EXCEPT !.f = "UpdateConvexifiedMap"])]

\* RemoveAllObstaclesCMiqpPlanner; the log keeps whether there was any to remove
RemoveAllObstaclesCMiqpPlanner(eng) ==
  [eng EXCEPT !.obstacles = <<>>,
              !.calls = Append(@, [NoCall EXCEPT !.f = "RemoveAllObstacles",
                                     !.ok = (Len(eng.obstacles) > 0)])]

\* AddObstacleCMiqpPlanner: the engine stores the obstacle and returns its index,
\* or rejects it and returns -1.
AddObstacleCMiqpPlanner(eng, pts, is_static, is_soft, reject) ==
  LET ob == [pts |-> pts, is_static |-> is_static, is_soft |-> is_soft,
             fresh |-> TRUE]
  IN [eng EXCEPT
        !.obstacles = IF reject THEN @ ELSE Append(@, ob),
        !.calls = Append(@, [NoCall EXCEPT !.f = "AddObstacle",
                               !.idx = IF reject THEN InvalidIdx
                                       ELSE Len(eng.obstacles)])]

\* PlanCMiqpPlanner: one solve, which succeeds or fails; the log keeps which
\* of the obstacles it was invoked with are fresh.
PlanCMiqpPlanner(eng, success) ==
  [eng EXCEPT !.calls = Append(@, [NoCall EXCEPT !.f = "Plan", !.ok = success,
                                      !.fresh = [i \in DOMAIN eng.obstacles |->
                                                   eng.obstacles[i].fresh]])]

\* GetRawCLastReferenceTrajectoryCMiqpPlaner
GetRawCLastReferenceTrajectoryCMiqpPlaner(eng, idx) ==
  [eng EXCEPT !.calls = Append(@, [NoCall EXCEPT !.f = "GetLastReference",
                                      !.idx = idx])]

\* GetRawCMiqpTrajectoryCMiqpPlanner
GetRawCMiqpTrajectoryCMiqpPlanner(eng, idx) ==
  [eng EXCEPT !.calls = Append(@, [NoCall EXCEPT !.f = "GetMiqpTrajectory",
                                      !.idx = idx])]

\* --------------------------------------------------------- trajectory codec
\* One record of the raw buffer: {time, x, y, vx, vy, ax, ay}, origin-shifted.
\* The buffer the engine fills for N samples: it moves along x at FastSpeed and
\* its sample k (0-based; k = N: none) is below the valid speed.
FastSpeed == [vx |-> 20, ax |-> 2]
RawBuffer(N, k, start_time, ts) ==
  [j \in 1..N |->
     [t |-> start_time + (j - 1) * ts, x |-> (j - 1) * 5, y |-> 0,
      vx |-> IF j - 1 = k THEN 0 ELSE FastSpeed.vx, vy |-> 0,
      ax |-> FastSpeed.ax, ay |-> 0]]

\* Fault variant: both components have to exceed the threshold.
IsVxVyValid_Both(vx, vy) ==
  Abs(vx) > minimum_valid_speed_vx_vy_ /\ Abs(vy) > minimum_valid_speed_vx_vy_

\* MiqpPlanner::IsVxVyValid
IsVxVyValid(vx, vy) ==
  Abs(vx) > minimum_valid_speed_vx_vy_ \/ Abs(vy) > minimum_valid_speed_vx_vy_

\* sqrt(dx^2 + dy^2), exact on axis-parallel segments
Sqrt(n) == CHOOSE r \in 0..n : r * r <= n /\ n < (r + 1) * (r + 1)
\* Fault variant: the distance along the axes.
Dist_Manhattan(dx, dy) == Abs(dx) + Abs(dy)

Dist(dx, dy) ==
  IF dy = 0 THEN Abs(dx) ELSE IF dx = 0 THEN Abs(dy) ELSE Sqrt(dx * dx + dy * dy)

\* (vx^2 + vy^2) raised to 3 / 2, the exponent being an int division in the source
RECURSIVE IntPow(_, _)
IntPow(b, e) == IF e = 0 THEN 1 ELSE b * IntPow(b, e - 1)

\* kappa of one sample, as the fraction num / den
Kappa(vx, vy, ax, ay) ==
  IF vx * vx + vy * vy < 1
  THEN [num |-> 0, den |-> 1]
  ELSE [num |-> vx * ay - ax * vy, den |-> IntPow(vx * vx + vy * vy, 3 \div 2)]

\* atan2(vy, vx) in quarter turns for a velocity along an axis; atan2(0, 0) = 0
Atan2(vy, vx) ==
  IF vy > 0 THEN 1 ELSE IF vy < 0 THEN -1 ELSE IF vx >= 0 THEN 0 ELSE 2

\* cos of a heading in quarter turns; cos(pi/2) is 6.1e-17 in doubles, 0 here
Cos(theta) == IF theta = 0 THEN 1 ELSE IF theta = 2 THEN -1 ELSE 0

\* v = vx / cos(theta): at a quarter turn vx is 0 and 0 / 6.1e-17 = 0
SpeedAlongHeading(vx, theta) == IF Cos(theta) = 0 THEN 0 ELSE vx \div Cos(theta)

\* a = cos(theta) * ax + sin(pi/4 - theta) * ay, for ay = 0
AccelAlongHeading(ax, ay, theta) == Cos(theta) * ax

\* The loop of RawCTrajectoryToApolloTrajectory from sample trajidx on (1-based),
\* with the arc length s and the last retained position.
RECURSIVE DecodeFrom(_, _, _, _, _, _, _, _)
DecodeFrom(traj, size, low_speed_check, trajidx, s, lastx, lasty, apollo_trajectory) ==
  IF trajidx > size THEN apollo_trajectory
  ELSE LET smp == traj[trajidx]
           x == smp.x + config_.pts_offset_x
           y == smp.y + config_.pts_offset_y
           s1 == s + Dist(x - lastx, y - lasty)
       IN IF low_speed_check /\ ~IsVxVyValid(smp.vx, smp.vy)
          THEN apollo_trajectory
          ELSE DecodeFrom(traj, size, low_speed_check, trajidx + 1, s1, x, y,
                 Append(apollo_trajectory,
                        [x |-> x, y |-> y, s |-> s1,
                         theta |-> Atan2(smp.vy, smp.vx),
                         kappa |-> Kappa(smp.vx, smp.vy, smp.ax, smp.ay),
                         v |-> SpeedAlongHeading(smp.vx, Atan2(smp.vy, smp.vx)),
                         a |-> AccelAlongHeading(smp.ax, smp.ay,
                                                 Atan2(smp.vy, smp.vx)),
                         relative_time |-> smp.t]))

\* MiqpPlanner::RawCTrajectoryToApolloTrajectory(traj, size, low_speed_check)
\* FillTimeDerivativesInApolloTrajectory only fills the derivative fields, which
\* the points of the model do not carry.
RawCTrajectoryToApolloTrajectory(traj, size, low_speed_check) ==
  DecodeFrom(traj, size, low_speed_check, 1, 0,
             traj[1].x + config_.pts_offset_x, traj[1].y + config_.pts_offset_y,
             <<>>)

\* MiqpPlanner::ConvertToInitialStateSecondOrder for theta = 0
\* (cos(theta) = 1, sin(theta) = 0): {x, xd, xdd, y, yd, ydd}
ConvertToInitialStateSecondOrder(p) ==
  LET vel == Max(p.v, 1)
  IN <<p.x - config_.pts_offset_x, vel, p.a,
       p.y - config_.pts_offset_y, 0, vel * vel * p.kappa>>

\* ------------------------------------------------------ obstacle aggregator
\* Obstacles live on the x axis: a box is the interval lo..hi of its extent
\* along the road, a predicted trajectory moves it by vel (0.1 m/s).
\* Box2d::LongitudinalExtend(ext) lengthens the box by ext, half on each end.
LongitudinalExtend(box, ext) == [lo |-> box.lo - ext \div 2, hi |-> box.hi + ext \div 2]

\* Polygon2d::DistanceTo
DistanceTo(a, b) == Max(0, Max(a.lo - b.hi, b.lo - a.hi))

\* Polygon2d::ComputeConvexHull of the vertices of both polygons
ComputeConvexHull(a, b) ==
  [lo |-> IF a.lo <= b.lo THEN a.lo ELSE b.lo, hi |-> Max(a.hi, b.hi)]

\* What goes wrong at the first registration of a call: the engine rejects it,
\* or the bounding box of the inflated polygon comes with corners other than 4
\* and the points keep what the uninitialized arrays hold (unwritten).
NoFault == [reject |-> FALSE, corners |-> 4, unwritten |-> [lo |-> 0, hi |-> 0]]
Faults ==
  {NoFault, [NoFault EXCEPT !.reject = TRUE]} \cup
  {[NoFault EXCEPT !.corners = 3, !.unwritten = u] :
     u \in {[lo |-> 0, hi |-> 0], [lo |-> -9, hi |-> 7]}}

\* MiqpPlanner::FillInflatedPtsFromPolygon: the corners of the bounding box of
\* the polygon expanded by the collision radius, origin-shifted, and true; or
\* false with the points left as they are when the box has not 4 corners.
FillInflatedPtsFromPolygon(eng, poly, corners, unwritten) ==
  IF corners # 4
  THEN [ok |-> FALSE,
        pts |-> [lo |-> unwritten.lo, hi |-> unwritten.hi, written |-> FALSE]]
  ELSE [ok |-> TRUE,
        pts |-> [lo |-> poly.lo - GetCollisionRadius(eng) - config_.pts_offset_x,
                 hi |-> poly.hi + GetCollisionRadius(eng) - config_.pts_offset_x,
                 written |-> TRUE]]

\* The log keeps an inflation that returned false.
LogInflation(eng, ok) ==
  IF ok THEN eng
  ELSE [eng EXCEPT !.calls =
          Append(@, [NoCall EXCEPT !.f = "FillInflatedPtsFromPolygon",
                                   !.ok = FALSE])]

\* The number of corners the bounding box of the next inflation comes with.
Corners(eng, fault) ==
  IF \A c \in DOMAIN eng.calls : eng.calls[c].f # "AddObstacle"
  THEN fault.corners ELSE 4

\* Fault variant: the polygon is merged into the last accepted polygon within
\* the merge distance.
MergeInto_Last(static_polygons, obst_poly, it) ==
  LET near == {k \in DOMAIN static_polygons :
                 DistanceTo(obst_poly, static_polygons[k]) <
                   config_.static_obstacle_distance_criteria}
  IN IF near = {} THEN Append(static_polygons, obst_poly)
     ELSE LET last == CHOOSE k \in near : \A o \in near : o <= k
          IN [static_polygons EXCEPT
                ![last] = ComputeConvexHull(obst_poly, static_polygons[last])]

\* The scan of the accepted polygons: the first one within the merge distance
\* is replaced by the hull, otherwise the polygon is appended.
RECURSIVE MergeInto(_, _, _)
MergeInto(static_polygons, obst_poly, it) ==
  IF it > Len(static_polygons) THEN Append(static_polygons, obst_poly)
  ELSE IF DistanceTo(obst_poly, static_polygons[it]) <
            config_.static_obstacle_distance_criteria
       THEN [static_polygons EXCEPT
               ![it] = ComputeConvexHull(obst_poly, static_polygons[it])]
       ELSE MergeInto(static_polygons, obst_poly, it + 1)

\* The first loop of ProcessStaticObstacles: the accepted polygons.
RECURSIVE StaticPolygons(_, _, _)
StaticPolygons(obstacles, i, static_polygons) ==
  IF i > Len(obstacles) THEN static_polygons
  ELSE LET obstacle == obstacles[i]
           obst_poly ==
             LongitudinalExtend([lo |-> obstacle.lo, hi |-> obstacle.hi],
                                config_.extension_length_static)
       IN IF ~obstacle.virtual /\ ~obstacle.has_traj
          THEN StaticPolygons(obstacles, i + 1,
                 IF config_.merge_static_obstacles
                 THEN MergeInto(static_polygons, obst_poly, 1)
                 ELSE Append(static_polygons, obst_poly))
          ELSE StaticPolygons(obstacles, i + 1, static_polygons)

\* Whether the engine rejects the next registration of this call.
Rejects(eng, fault) ==
  fault.reject /\ \A c \in DOMAIN eng.calls : eng.calls[c].f # "AddObstacle"

\* The second loop of ProcessStaticObstacles: one registration per polygon.
RECURSIVE RegisterStatic(_, _, _, _, _)
RegisterStatic(eng, static_polygons, i, is_soft, fault) ==
  IF i > Len(static_polygons) THEN eng
  ELSE LET N == GetNCMiqpPlanner(eng)
           filled == FillInflatedPtsFromPolygon(eng, static_polygons[i],
                                                Corners(eng, fault), fault.unwritten)
           pts == [k \in 1..N |-> filled.pts]
       IN RegisterStatic(
            AddObstacleCMiqpPlanner(LogInflation(eng, filled.ok), pts, TRUE,
                                    is_soft, Rejects(eng, fault)),
            static_polygons, i + 1, is_soft, fault)

\* MiqpPlanner::ProcessStaticObstacles
ProcessStaticObstacles(eng, obstacles, fault) ==
  LET ext_l == config_.extension_length_static
      ext_w == config_.extension_width_static
      is_soft == (ext_w > 0 \/ ext_l > 0)
  IN [eng |-> RegisterStatic(eng, StaticPolygons(obstacles, 1, <<>>), 1, is_soft,
                             fault),
      success |-> TRUE]

\* Obstacle::GetPointAtTime and GetBoundingBox: the predicted box at a time
PredictedBox(obstacle, pred_time) ==
  [lo |-> obstacle.lo + (obstacle.vel * pred_time) \div 100,
   hi |-> obstacle.hi + (obstacle.vel * pred_time) \div 100]

\* Fault variant: virtual obstacles with a predicted trajectory are
\* registered as well.
RECURSIVE RegisterDynamic_Virtual(_, _, _, _, _)
RegisterDynamic_Virtual(eng, obstacles, i, timestep, fault) ==
  IF i > Len(obstacles) THEN eng
  ELSE LET obstacle == obstacles[i]
           N == GetNCMiqpPlanner(eng)
           ts == GetTsCMiqpPlanner(eng)
           filled == [k \in 1..N |->
                        FillInflatedPtsFromPolygon(eng,
                          LongitudinalExtend(
                            PredictedBox(obstacle, timestep + (k - 1) * ts),
                            config_.extension_length_dynamic),
                          Corners(eng, fault), fault.unwritten)]
           pts == [k \in 1..N |-> filled[k].pts]
       IN IF obstacle.has_traj
          THEN RegisterDynamic_Virtual(
                 AddObstacleCMiqpPlanner(LogInflation(eng, filled[1].ok), pts,
                                         FALSE, TRUE, Rejects(eng, fault)),
                 obstacles, i + 1, timestep, fault)
          ELSE RegisterDynamic_Virtual(eng, obstacles, i + 1, timestep, fault)

\* MiqpPlanner::ProcessDynamicObstacles
RECURSIVE RegisterDynamic(_, _, _, _, _)
RegisterDynamic(eng, obstacles, i, timestep, fault) ==
  IF i > Len(obstacles) THEN eng
  ELSE LET obstacle == obstacles[i]
           N == GetNCMiqpPlanner(eng)
           ts == GetTsCMiqpPlanner(eng)
           filled == [k \in 1..N |->
                        FillInflatedPtsFromPolygon(eng,
                          LongitudinalExtend(
                            PredictedBox(obstacle, timestep + (k - 1) * ts),
                            config_.extension_length_dynamic),
                          Corners(eng, fault), fault.unwritten)]
           pts == [k \in 1..N |-> filled[k].pts]
       IN IF ~obstacle.virtual /\ obstacle.has_traj
          THEN RegisterDynamic(
                 AddObstacleCMiqpPlanner(LogInflation(eng, filled[1].ok), pts,
                                         FALSE, TRUE, Rejects(eng, fault)),
                 obstacles, i + 1, timestep, fault)
          ELSE RegisterDynamic(eng, obstacles, i + 1, timestep, fault)

ProcessDynamicObstacles(eng, obstacles, timestep, fault) ==
  [eng |-> RegisterDynamic(eng, obstacles, 1, timestep, fault),
   success |-> TRUE]

\* ------------------------------------------------------- planning cycle
NoTarget == [track_ref_pos |-> FALSE, vDes |-> 0, deltaSDes |-> 0]
NoTrajectory == [points |-> <<>>, kind |-> "none"]
NoPoint == [x |-> 0, y |-> 0, theta |-> 0, kappa |-> 0, a |-> 0, v |-> 0,
            relative_time |-> 0]

\* The locals of a call; pc is the place the call is at, "returned" once it
\* has returned with status.
NoCallRecord ==
  [op |-> "none", pc |-> "returned", done |-> TRUE, status |-> StatusOK,
   init_point |-> NoPoint, obstacles |-> <<>>,
   planner_status |-> "none", stop_dist |-> 0, target |-> NoTarget,
   low_speed_check |-> FALSE, decoded |-> FALSE, apollo_traj |-> <<>>,
   size |-> 0, reached_publish |-> FALSE, collision_logged |-> 0,
   smoothing |-> "none"]

\* The locals together with the members the call works on.
Ctx(locals) ==
  [op |-> locals.op, pc |-> locals.pc, done |-> locals.done,
   status |-> locals.status, init_point |-> locals.init_point,
   obstacles |-> locals.obstacles, planner_status |-> locals.planner_status,
   stop_dist |-> locals.stop_dist, target |-> locals.target,
   low_speed_check |-> locals.low_speed_check, decoded |-> locals.decoded,
   apollo_traj |-> locals.apollo_traj, size |-> locals.size,
   reached_publish |-> locals.reached_publish,
   collision_logged |-> locals.collision_logged,
   smoothing |-> locals.smoothing,
   eng |-> planner_, firstrun |-> firstrun_, egoCarIdx |-> egoCarIdx_,
   rli |-> rli]

Return(c, st) == [c EXCEPT !.done = TRUE, !.status = st]

\* Entry of a call: a new operation log; what the engine holds is from earlier.
EnterEngine(eng) ==
  [eng EXCEPT !.calls = <<>>,
              !.obstacles = [i \in DOMAIN @ |-> [@[i] EXCEPT !.fresh = FALSE]]]

\* fortiss::CreateStandstillTrajectory: the hold trajectory at the current pose
CreateStandstillTrajectory(planning_init_point, r) ==
  [r EXCEPT
     !.trajectory =
       [points |-> <<[x |-> planning_init_point.x, y |-> planning_init_point.y,
                      s |-> 0, theta |-> planning_init_point.theta,
                      kappa |-> [num |-> 0, den |-> 1], v |-> 0, a |-> 0,
                      relative_time |-> planning_init_point.relative_time]>>,
        kind |-> "standstill"],
     !.cost = 0, !.drivable = TRUE]

\* Fault variant: no state ends the call at once.
IsStandstillExit_Never(planner_status) == FALSE

\* The early exit: whether the classified state ends the call at once.
IsStandstillExit(planner_status) == planner_status = STANDSTILL_TRAJECTORY

\* DeterminePlannerState and the STANDSTILL exit
ClassifyState(c, planner_status, stop_dist) ==
  IF c.done THEN c
  ELSE LET c1 == [c EXCEPT !.planner_status = planner_status,
                           !.stop_dist = stop_dist]
       IN IF IsStandstillExit(planner_status)
          THEN Return([c1 EXCEPT
                         !.rli = CreateStandstillTrajectory(c.init_point, c.rli)],
                      StatusOK)
          ELSE c1

\* Obtain a reference line: the reference line info is marked as on it
ObtainReferenceLine(c) ==
  IF c.done THEN c
  ELSE [c EXCEPT !.rli.is_on_reference_line = TRUE]

\* The road polygon, when the environment polygon is used
UpdateMap(c) ==
  IF c.done THEN c
  ELSE IF config_.use_environment_polygon
       THEN [c EXCEPT !.eng = UpdateConvexifiedMapCMiqpPlaner(@)]
       ELSE c

\* Fault variant: START is not told apart when approaching a stop.
TargetSelection_StartIgnored(planner_status, stop_dist) ==
  IF stop_dist - config_.distance_stop_before < config_.distance_start_slowdown
  THEN [track_ref_pos |-> FALSE, vDes |-> 0,
        deltaSDes |-> Max(0, stop_dist - config_.distance_stop_before)]
  ELSE [track_ref_pos |-> TRUE, vDes |-> config_.default_cruise_speed,
        deltaSDes |-> config_.delta_s_desired]

\* Fault variant: the offset to the stop is not floored at 0.
TargetSelection_NoFloor(planner_status, stop_dist) ==
  IF stop_dist - config_.distance_stop_before < config_.distance_start_slowdown
  THEN [track_ref_pos |-> FALSE,
        vDes |-> IF planner_status # START_TRAJECTORY THEN 0
                 ELSE config_.default_cruise_speed,
        deltaSDes |-> stop_dist - config_.distance_stop_before]
  ELSE [track_ref_pos |-> TRUE, vDes |-> config_.default_cruise_speed,
        deltaSDes |-> config_.delta_s_desired]

\* Target velocity: track_ref_pos, vDes, deltaSDes
TargetSelection(planner_status, stop_dist) ==
  LET dist_start_slowdown == config_.distance_start_slowdown
      dist_stop_before == config_.distance_stop_before
  IN IF (stop_dist - dist_stop_before < dist_start_slowdown) /\
        (planner_status # START_TRAJECTORY)
     THEN [track_ref_pos |-> FALSE, vDes |-> 0,
           deltaSDes |-> Max(0, stop_dist - dist_stop_before)]
     ELSE IF (stop_dist - dist_stop_before < dist_start_slowdown) /\
             (planner_status = START_TRAJECTORY)
     THEN [track_ref_pos |-> FALSE, vDes |-> config_.default_cruise_speed,
           deltaSDes |-> Max(0, stop_dist - dist_stop_before)]
     ELSE [track_ref_pos |-> TRUE, vDes |-> config_.default_cruise_speed,
           deltaSDes |-> config_.delta_s_desired]

SelectTarget(c) ==
  IF c.done THEN c
  ELSE [c EXCEPT !.target = TargetSelection(c.planner_status, c.stop_dist)]

\* Fault variant: the ego car is added in every call.
AddOrUpdateEgoCar_AlwaysAdd(c, add_car_idx) ==
  IF c.done THEN c
  ELSE [c EXCEPT
          !.eng = AddCarCMiqpPlanner(@, ConvertToInitialStateSecondOrder(c.init_point),
                                     c.target.vDes, c.target.deltaSDes,
                                     c.target.track_ref_pos, add_car_idx),
          !.egoCarIdx = add_car_idx,
          !.firstrun = FALSE]

\* Add/update ego car; add_car_idx is the index the engine returns for an add
AddOrUpdateEgoCar(c, add_car_idx) ==
  IF c.done THEN c
  ELSE LET initial_state == ConvertToInitialStateSecondOrder(c.init_point)
           t == c.target
       IN IF c.firstrun
          THEN [c EXCEPT
                  !.eng = AddCarCMiqpPlanner(@, initial_state, t.vDes, t.deltaSDes,
                                             t.track_ref_pos, add_car_idx),
                  !.egoCarIdx = add_car_idx,
                  !.firstrun = FALSE]
          ELSE [c EXCEPT
                  !.eng = UpdateDesiredVelocityCMiqpPlanner(
                            UpdateCarCMiqpPlanner(@, c.egoCarIdx, initial_state,
                                                  t.track_ref_pos),
                            c.egoCarIdx, t.vDes, t.deltaSDes)]

\* Fault variant: the obstacles of the engine are not removed first.
ProcessObstacles_NoRemove(c, obstacles, fault) ==
  IF c.done THEN c
  ELSE IF config_.consider_obstacles
       THEN LET r1 == ProcessStaticObstacles(c.eng, obstacles, fault)
                r2 == ProcessDynamicObstacles(r1.eng, obstacles,
                                              c.init_point.relative_time,
                                              fault)
            IN [c EXCEPT !.eng = r2.eng, !.obstacles = obstacles]
       ELSE c

\* Obstacles as obstacles
ProcessObstacles(c, obstacles, fault) ==
  IF c.done THEN c
  ELSE IF config_.consider_obstacles
       THEN LET e0 == RemoveAllObstaclesCMiqpPlanner(c.eng)
                r1 == ProcessStaticObstacles(e0, obstacles, fault)
                r2 == ProcessDynamicObstacles(r1.eng, obstacles,
                                              c.init_point.relative_time,
                                              fault)
                c1 == [c EXCEPT !.eng = r2.eng, !.obstacles = obstacles]
            IN IF ~r1.success \/ ~r2.success
               THEN Return(c1, PlanningError("processing of obstacles failed!"))
               ELSE c1
       ELSE c

\* Fault variant: only START reuses the last reference.
UseReferenceInsteadOfMiqp_StartOnly(planner_status) ==
  planner_status = START_TRAJECTORY

\* Whether the call reuses the last reference instead of solving
UseReferenceInsteadOfMiqp(planner_status) ==
  planner_status = START_TRAJECTORY \/ planner_status = STOP_TRAJECTORY

\* Plan: solve_ok is the engine's answer to the solve, low_at picks the buffer
\* it fills
Dispatch(c, solve_ok, low_at) ==
  IF c.done THEN c
  ELSE LET N == GetNCMiqpPlanner(c.eng)
           traj == RawBuffer(N, low_at, c.init_point.relative_time,
                             GetTsCMiqpPlanner(c.eng))
           size == N
       IN IF UseReferenceInsteadOfMiqp(c.planner_status)
          THEN [c EXCEPT
                  !.eng = GetRawCLastReferenceTrajectoryCMiqpPlaner(@, c.egoCarIdx),
                  !.low_speed_check = FALSE, !.decoded = TRUE,
                  !.apollo_traj = RawCTrajectoryToApolloTrajectory(traj, size, FALSE)]
          ELSE LET e1 == PlanCMiqpPlanner(c.eng, solve_ok)
                   success == solve_ok
               IN IF ~success
                  THEN Return([c EXCEPT !.eng = e1],
                              PlanningError("miqp planner failed!"))
                  ELSE [c EXCEPT
                          !.eng = GetRawCMiqpTrajectoryCMiqpPlanner(e1, c.egoCarIdx),
                          !.low_speed_check = TRUE, !.decoded = TRUE,
                          !.apollo_traj =
                            RawCTrajectoryToApolloTrajectory(traj, size, TRUE)]

\* Fault variant: a trajectory of exactly the minimum length is too short.
TooManyInvalidPoints_Inclusive(size) ==
  config_.minimum_percentage_valid_miqp_points * config_.nr_steps >= 4 * size

\* The too-short test: minimum fraction (quarters) times nr_steps > size
TooManyInvalidPoints(size) ==
  config_.minimum_percentage_valid_miqp_points * config_.nr_steps > 4 * size

CheckValidPoints(c) ==
  IF c.done THEN c
  ELSE IF TooManyInvalidPoints(Len(c.apollo_traj))
       THEN Return(c, PlanningError("invalid points!"))
       ELSE c

\* Fault variant: a collision with an obstacle fails the call.
CheckCollisions_Enforcing(c, obstacle_collision, env_collision) ==
  IF c.done THEN c
  ELSE IF config_.consider_obstacles /\ obstacle_collision
       THEN Return([c EXCEPT !.collision_logged = 1],
                   PlanningError("collision with obstacle!"))
       ELSE [c EXCEPT !.collision_logged =
                        IF config_.use_environment_polygon /\ env_collision
                        THEN 1 ELSE 0]

\* Collision verification against obstacles and the road boundary: the two
\* findings are logged, nothing else
CheckCollisions(c, obstacle_collision, env_collision) ==
  IF c.done THEN c
  ELSE LET l1 == IF config_.consider_obstacles /\ obstacle_collision
                 THEN 1 ELSE 0
           l2 == IF config_.use_environment_polygon /\ env_collision
                 THEN 1 ELSE 0
       IN [c EXCEPT !.collision_logged = l1 + l2]

\* fortiss::SmoothTrajectory: (success, smoothed trajectory)
SmoothTrajectory(apollo_traj, smooth_ok) ==
  [first |-> smooth_ok,
   second |-> IF smooth_ok THEN [points |-> apollo_traj, kind |-> "smoothed"]
              ELSE NoTrajectory]

\* Fault variant: the decoded trajectory is set before the smoother is asked.
Publish_SetBeforeSmoothing(c, smooth_ok) ==
  IF c.done THEN c
  ELSE LET c1 == [c EXCEPT
                    !.reached_publish = TRUE,
                    !.rli = [@ EXCEPT
                               !.trajectory =
                                 [points |-> c.apollo_traj, kind |-> "decoded"],
                               !.cost = 0, !.drivable = TRUE]]
       IN IF config_.use_smoothing
          THEN IF SmoothTrajectory(c.apollo_traj, smooth_ok).first
               THEN Return([c1 EXCEPT
                              !.smoothing = "ok",
                              !.rli.trajectory =
                                SmoothTrajectory(c.apollo_traj, smooth_ok).second],
                           StatusOK)
               ELSE Return([c1 EXCEPT !.smoothing = "failed"],
                           PlanningError("Smoothing failed!"))
          ELSE Return(c1, StatusOK)

\* Fault variant: the smoother's trajectory is dropped for the decoded one.
Publish_DecodedWhenSmoothed(c, smooth_ok) ==
  IF c.done THEN c
  ELSE LET c1 == [c EXCEPT !.reached_publish = TRUE]
           decoded == [c.rli EXCEPT
                         !.trajectory =
                           [points |-> c.apollo_traj, kind |-> "decoded"],
                         !.cost = 0, !.drivable = TRUE]
       IN IF config_.use_smoothing
          THEN IF SmoothTrajectory(c.apollo_traj, smooth_ok).first
               THEN Return([c1 EXCEPT !.smoothing = "ok", !.rli = decoded],
                           StatusOK)
               ELSE Return([c1 EXCEPT !.smoothing = "failed"],
                           PlanningError("Smoothing failed!"))
          ELSE Return([c1 EXCEPT !.rli = decoded], StatusOK)

\* Planning success -> publish trajectory
Publish(c, smooth_ok) ==
  IF c.done THEN c
  ELSE LET c1 == [c EXCEPT !.reached_publish = TRUE]
       IN IF config_.use_smoothing
          THEN LET smoothed_apollo_trajectory ==
                     SmoothTrajectory(c.apollo_traj, smooth_ok)
               IN IF smoothed_apollo_trajectory.first
                  THEN Return([c1 EXCEPT
                                 !.smoothing = "ok",
                                 !.rli = [@ EXCEPT
                                            !.trajectory =
                                              smoothed_apollo_trajectory.second,
                                            !.cost = 0, !.drivable = TRUE]],
                              StatusOK)
                  ELSE Return([c1 EXCEPT !.smoothing = "failed"],
                              PlanningError("Smoothing failed!"))
          ELSE Return([c1 EXCEPT
                         !.rli = [@ EXCEPT
                                    !.trajectory =
                                      [points |-> c.apollo_traj, kind |-> "decoded"],
                                    !.cost = 0, !.drivable = TRUE]],
                      StatusOK)

\* -------------------------------------------------------------------- inputs
\* DeterminePlannerState: the stop distances it reports (0.1 m)
StopDists == {20, 40, 80}

\* The planning init point; its speed goes with the classified state.
InitPoint(planner_status) ==
  [x |-> 20, y |-> 0, theta |-> 0, kappa |-> 0, a |-> 0,
   v |-> IF planner_status = STANDSTILL_TRAJECTORY THEN 0
         ELSE IF planner_status = DRIVING_TRAJECTORY THEN 50 ELSE 5,
   relative_time |-> 10]

\* The obstacles of a frame: the first obstacles of the scene.
Scene ==
  <<[id |-> 1, virtual |-> FALSE, has_traj |-> FALSE, lo |-> 100, hi |-> 140, vel |-> 0],
    [id |-> 2, virtual |-> FALSE, has_traj |-> TRUE, lo |-> 200, hi |-> 240, vel |-> 40],
    [id |-> 3, virtual |-> TRUE, has_traj |-> FALSE, lo |-> 50, hi |-> 90, vel |-> 0],
    [id |-> 4, virtual |-> FALSE, has_traj |-> FALSE, lo |-> 150, hi |-> 170, vel |-> 0]>>

Frames == {SubSeq(Scene, 1, n) : n \in 0..MaxObstacles}

\* The buffers the engine fills: low speed at the first sample, at the sample
\* before and at the one the too-short test draws the line at, or nowhere.
LowAts(N) ==
  LET line == (config_.minimum_percentage_valid_miqp_points * config_.nr_steps) \div 4
  IN {k \in {0, line - 1, line, N} : 0 <= k /\ k <= N}

\* -------------------------------------------------------------------- state
Init ==
  /\ phase = "constructed"
  /\ config_ = EmptyConfig
  /\ planner_ = NoEngine
  /\ firstrun_ \in BOOLEAN       \* the members are not initialized before Init
  /\ egoCarIdx_ \in {InvalidIdx, 0}
  /\ rli = [trajectory |-> NoTrajectory, cost |-> 0, drivable |-> FALSE,
            is_on_reference_line |-> FALSE]
  /\ call = NoCallRecord

\* MiqpPlanner::Init(config)
MiqpPlannerInit(config) ==
  /\ phase = "constructed"
  /\ planner_' = NewCMiqpPlannerSettings(DefaultSettings)
  /\ firstrun_' = TRUE
  /\ egoCarIdx_' = InvalidIdx
  /\ config_' = config
  /\ LET st == IF ~config.has_miqp_planner_config
               THEN PlanningError("miqp planner parameters missing!")
               ELSE StatusOK
     IN /\ call' = [NoCallRecord EXCEPT !.op = "Init", !.status = st]
        /\ phase' = IF st = StatusOK THEN "ready" ELSE "failed"
  /\ UNCHANGED rli

\* The members and the locals after a step of the call; the call goes on at
\* next unless the step returned, and then its arguments and its trajectory
\* are gone; size keeps apollo_traj.size().
Commit(c, next) ==
  /\ planner_' = c.eng
  /\ firstrun_' = c.firstrun
  /\ egoCarIdx_' = c.egoCarIdx
  /\ rli' = c.rli
  /\ call' = [k \in DOMAIN call |->
                IF k = "pc" THEN (IF c.done THEN "returned" ELSE next)
                ELSE IF k = "size" THEN Len(c.apollo_traj)
                ELSE IF c.done /\ k \in {"init_point", "obstacles", "apollo_traj"}
                     THEN NoCallRecord[k]
                     ELSE c[k]]
  /\ UNCHANGED <<phase, config_>>

\* PlanOnReferenceLine is called: the state is classified
PlanEnter(planner_status, stop_dist) ==
  /\ phase = "ready"
  /\ call.pc = "returned"
  /\ LET c0 == [Ctx(NoCallRecord) EXCEPT
                  !.op = "Plan", !.done = FALSE,
                  !.init_point = InitPoint(planner_status),
                  !.eng = EnterEngine(planner_)]
     IN \E c \in {ClassifyState(c0, planner_status, stop_dist)} : Commit(c, "ego")

\* ... the map, the target and the ego car are handed to the engine
PlanEgo(add_car_idx) ==
  /\ call.pc = "ego"
  /\ \E c1 \in {UpdateMap(ObtainReferenceLine(Ctx(call)))} :
       \E c2 \in {SelectTarget(c1)} :
         \E c \in {AddOrUpdateEgoCar(c2, add_car_idx)} : Commit(c, "obstacles")

\* ... the obstacles of the frame are registered
PlanObstacles(obstacles, fault) ==
  /\ call.pc = "obstacles"
  /\ \E c \in {ProcessObstacles(Ctx(call), obstacles, fault)} :
       Commit(c, "plan")

\* ... the trajectory is solved for or taken from the reference, and decoded
PlanSolve(solve_ok, low_at) ==
  /\ call.pc = "plan"
  /\ \E c1 \in {Dispatch(Ctx(call), solve_ok, low_at)} :
       \E c \in {CheckValidPoints(c1)} : Commit(c, "verify")

\* ... it is verified against obstacles and road
PlanVerify(obstacle_collision, env_collision) ==
  /\ call.pc = "verify"
  /\ \E c \in {CheckCollisions(Ctx(call), obstacle_collision, env_collision)} :
       Commit(c, "publish")

\* ... and published
PlanPublish(smooth_ok) ==
  /\ call.pc = "publish"
  /\ \E c \in {Publish(Ctx(call), smooth_ok)} : Commit(c, "returned")

\* MiqpPlanner::Stop
Stop ==
  /\ phase = "ready"
  /\ call.pc = "returned"
  /\ phase' = "stopped"
  /\ planner_' = NoEngine
  /\ call' = [NoCallRecord EXCEPT !.op = "Stop"]
  /\ UNCHANGED <<config_, firstrun_, egoCarIdx_, rli>>

Next ==
  \/ \E config \in Configs : MiqpPlannerInit(config)
  \/ \E planner_status \in PlannerState, stop_dist \in StopDists :
       PlanEnter(planner_status,
                 IF planner_status = STANDSTILL_TRAJECTORY THEN 0 ELSE stop_dist)
  \/ \E add_car_idx \in (IF firstrun_ THEN CarIdxValues ELSE {InvalidIdx}) :
       PlanEgo(add_car_idx)
  \/ \E obstacles \in (IF config_.consider_obstacles THEN Frames ELSE {<<>>}),
        fault \in (IF config_.consider_obstacles
                   THEN {NoFault, [NoFault EXCEPT !.reject = TRUE]}
                   ELSE {NoFault}) :
       PlanObstacles(obstacles, fault)
  \/ \E solve_ok \in BOOLEAN, low_at \in LowAts(GetNCMiqpPlanner(planner_)) :
       PlanSolve(solve_ok, low_at)
  \/ \E obstacle_collision \in
          (IF config_.consider_obstacles THEN BOOLEAN ELSE {FALSE}),
        env_collision \in
          (IF config_.use_environment_polygon THEN BOOLEAN ELSE {FALSE}) :
       PlanVerify(obstacle_collision, env_collision)
  \/ \E smooth_ok \in (IF config_.use_smoothing THEN BOOLEAN ELSE {TRUE}) :
       PlanPublish(smooth_ok)
  \/ Stop

Spec == Init /\ [][Next]_vars

\* ---------------------------------------------------------------- properties
\* The entries of the engine's log whose operation is one of fs, in order.
LogOf(eng, fs) == SelectSeq(eng.calls, LAMBDA e : e.f \in fs)
CountOf(eng, f) == Len(LogOf(eng, {f}))
CarOps == {"AddCar", "UpdateCar", "UpdateDesiredVelocity"}

\* The current or last call is a planning cycle that went past the STANDSTILL
\* exit and has handed the ego car to the engine.
PastEgo ==
  call.op = "Plan" /\ call.planner_status # STANDSTILL_TRAJECTORY /\ call.pc # "ego"

\* ... and has gone through the dispatch (solve or reference) as well.
PastDispatch ==
  /\ PastEgo
  /\ call.pc \in {"verify", "publish", "returned"}
  /\ call.status # PlanningError("processing of obstacles failed!")

\* C1: after Init the engine holds at most one ego agent; it is added in the
\* step of the first cycle that gets past the STANDSTILL exit and in no other
\* step; every later cycle getting there updates it (state and reference, then
\* desired speed and offset) under the index the add returned; once assigned,
\* the stored index and the cleared first-run flag never change.
C1_Step ==
  /\ phase' = "ready" =>
       /\ Len(planner_'.cars) <= 1
       /\ firstrun_' <=> (Len(planner_'.cars) = 0)
       /\ ~firstrun_' => egoCarIdx_' = planner_'.cars[1].idx
  /\ (phase = "ready" /\ ~firstrun_) => (~firstrun_' /\ egoCarIdx_' = egoCarIdx_)
  /\ call.pc = "ego" =>
       LET ops == LogOf(planner_', CarOps)
       IN IF firstrun_
          THEN /\ Len(ops) = 1
               /\ ops[1].f = "AddCar" /\ ops[1].idx = egoCarIdx_'
          ELSE /\ Len(ops) = 2
               /\ ops[1].f = "UpdateCar" /\ ops[1].idx = egoCarIdx_
               /\ ops[2].f = "UpdateDesiredVelocity" /\ ops[2].idx = egoCarIdx_
  /\ call.pc # "ego" =>
       Len(LogOf(planner_', CarOps)) <= Len(LogOf(planner_, CarOps))

C1_SingleAgentStableHandle == [][C1_Step]_vars

\* A later cycle has updated the agent in place under a non-zero index.
C1_Witness ==
  /\ phase = "ready" /\ call.op = "Plan" /\ call.pc = "obstacles"
  /\ egoCarIdx_ = 1 /\ Len(planner_.cars) = 1
  /\ LogOf(planner_, CarOps)[1].f = "UpdateCar"

\* C2: with obstacle consideration enabled, every registration and every
\* solve of a cycle comes after the one removal of all obstacles, no removal
\* follows a registration, and the solver is invoked only with obstacles
\* registered in the same cycle.
C2_ObstaclesRebuilt ==
  (call.op = "Plan" /\ config_.consider_obstacles) =>
    LET log == planner_.calls
        Removed(i) == \E j \in 1..(i - 1) : log[j].f = "RemoveAllObstacles"
    IN /\ \A i \in DOMAIN log :
            log[i].f = "AddObstacle" =>
              /\ Removed(i)
              /\ \A j \in DOMAIN log : j > i => log[j].f # "RemoveAllObstacles"
       /\ \A i \in DOMAIN log :
            log[i].f = "Plan" =>
              /\ Removed(i)
              /\ \A k \in DOMAIN log[i].fresh : log[i].fresh[k]
       /\ CountOf(planner_, "RemoveAllObstacles") >= 1 =>
            \A k \in DOMAIN planner_.obstacles : planner_.obstacles[k].fresh
       /\ (PastEgo /\ call.pc # "obstacles") =>
            CountOf(planner_, "RemoveAllObstacles") = 1

\* Obstacles of an earlier cycle were removed and the solver ran with new ones.
C2_Witness ==
  /\ call.op = "Plan" /\ config_.consider_obstacles
  /\ \E i, j \in DOMAIN planner_.calls :
       /\ planner_.calls[i].f = "RemoveAllObstacles" /\ planner_.calls[i].ok
       /\ planner_.calls[j].f = "Plan" /\ Len(planner_.calls[j].fresh) >= 1

\* C3: the step that classifies a cycle as STANDSTILL returns OK with the
\* hold trajectory at the current pose, performs no engine operation, and
\* leaves the engine's agent and obstacles, the first-run flag and the agent
\* index as they were.
C3_Step ==
  (phase = "ready" /\ call.pc = "returned" /\ call'.op = "Plan" /\
   call'.planner_status = STANDSTILL_TRAJECTORY) =>
     /\ call'.pc = "returned" /\ call'.status = StatusOK
     /\ planner_'.calls = <<>>
     /\ planner_'.cars = planner_.cars
     /\ planner_' = EnterEngine(planner_)
     /\ firstrun_' = firstrun_ /\ egoCarIdx_' = egoCarIdx_
     /\ rli'.trajectory.kind = "standstill"
     /\ Len(rli'.trajectory.points) = 1
     /\ rli'.trajectory.points[1].v = 0
     /\ rli'.trajectory.points[1].x = InitPoint(STANDSTILL_TRAJECTORY).x

C3_StandstillShortCircuit == [][C3_Step]_vars

\* A STANDSTILL cycle returned while the engine holds the agent and obstacles.
C3_Witness ==
  /\ call.op = "Plan" /\ call.pc = "returned"
  /\ call.planner_status = STANDSTILL_TRAJECTORY
  /\ ~firstrun_ /\ Len(planner_.cars) = 1 /\ Len(planner_.obstacles) >= 1
  /\ planner_.calls = <<>>
  /\ rli.trajectory.kind = "standstill"

\* The rows of the selection table: when a row applies and what it gives.
C4_Table(planner_status, stop_dist) ==
  LET approaching ==
        stop_dist - config_.distance_stop_before < config_.distance_start_slowdown
      offset == IF stop_dist - config_.distance_stop_before > 0
                THEN stop_dist - config_.distance_stop_before ELSE 0
  IN <<[applies |-> approaching /\ planner_status # START_TRAJECTORY,
        triple |-> [track_ref_pos |-> FALSE, vDes |-> 0, deltaSDes |-> offset]],
       [applies |-> approaching /\ planner_status = START_TRAJECTORY,
        triple |-> [track_ref_pos |-> FALSE,
                    vDes |-> config_.default_cruise_speed, deltaSDes |-> offset]],
       [applies |-> ~approaching,
        triple |-> [track_ref_pos |-> TRUE,
                    vDes |-> config_.default_cruise_speed,
                    deltaSDes |-> config_.delta_s_desired]]>>

\* C4: exactly one row of the selection table applies to a cycle, and its
\* triple is what the cycle selects and what every agent operation of the
\* cycle hands to the engine, be it the add or the two updates.
C4_TargetTable ==
  PastEgo =>
    LET rows == C4_Table(call.planner_status, call.stop_dist)
        hit == {r \in DOMAIN rows : rows[r].applies}
        ops == LogOf(planner_, CarOps)
    IN /\ Cardinality(hit) = 1
       /\ Len(ops) >= 1
       /\ Len(planner_.cars) = 1
       /\ \A r \in hit :
            LET t == rows[r].triple
            IN /\ call.target = t
               /\ \A i \in DOMAIN ops :
                    /\ ops[i].f \in {"AddCar", "UpdateCar"} =>
                         ops[i].track = t.track_ref_pos
                    /\ ops[i].f \in {"AddCar", "UpdateDesiredVelocity"} =>
                         ops[i].vDes = t.vDes /\ ops[i].deltaSDes = t.deltaSDes
               /\ planner_.cars[1].track = t.track_ref_pos
               /\ planner_.cars[1].vDes = t.vDes
               /\ planner_.cars[1].deltaSDes = t.deltaSDes

\* A START cycle approaching a stop with room left updated the agent.
C4_Witness ==
  /\ PastEgo /\ call.planner_status = START_TRAJECTORY
  /\ call.target.track_ref_pos = FALSE
  /\ call.target.vDes > 0 /\ call.target.deltaSDes > 0
  /\ LogOf(planner_, CarOps)[1].f = "UpdateCar"

\* C5 as stated: whenever the stop distance is smaller than the stop-before
\* distance the cycle selects target speed 0 and target offset 0.
C5_Original ==
  (PastEgo /\ call.stop_dist < config_.distance_stop_before) =>
    (call.target.vDes = 0 /\ call.target.deltaSDes = 0)

\* C5, amended: whenever the stop distance is smaller than the stop-before
\* distance (the slowdown distance not being negative) the cycle selects
\* target offset 0 and does not track the reference position; the target
\* speed is 0 unless the cycle is classified START, and then it is the
\* cruise speed.
C5_Amended ==
  (PastEgo /\ call.stop_dist < config_.distance_stop_before /\
   config_.distance_start_slowdown >= 0) =>
    /\ call.target.deltaSDes = 0
    /\ call.target.track_ref_pos = FALSE
    /\ call.target.vDes = IF call.planner_status = START_TRAJECTORY
                          THEN config_.default_cruise_speed ELSE 0
    /\ planner_.cars[1].deltaSDes = 0
    /\ planner_.cars[1].vDes = call.target.vDes

\* A START cycle closer to the stop than the stop-before distance selected
\* the cruise speed.
C5_Witness ==
  /\ PastEgo /\ call.stop_dist < config_.distance_stop_before
  /\ call.planner_status = START_TRAJECTORY
  /\ call.target.vDes = config_.default_cruise_speed /\ call.target.vDes > 0
  /\ call.target.deltaSDes = 0

\* C6: a START or STOP cycle never invokes the solve; it fetches the last
\* reference trajectory once and decodes it without low-speed truncation (all
\* N samples are kept). A DRIVING cycle invokes the solve exactly once,
\* fetches and decodes the optimized trajectory, with truncation, exactly when
\* the solve succeeded, and fails with a planning error otherwise.
C6_Dispatch ==
  PastEgo =>
    IF call.planner_status \in {START_TRAJECTORY, STOP_TRAJECTORY}
    THEN /\ CountOf(planner_, "Plan") = 0
         /\ CountOf(planner_, "GetMiqpTrajectory") = 0
         /\ PastDispatch =>
              /\ CountOf(planner_, "GetLastReference") = 1
              /\ call.decoded /\ ~call.low_speed_check
              /\ call.size = GetNCMiqpPlanner(planner_)
    ELSE /\ CountOf(planner_, "GetLastReference") = 0
         /\ ~PastDispatch =>
              CountOf(planner_, "Plan") = 0 /\ CountOf(planner_, "GetMiqpTrajectory") = 0
         /\ PastDispatch =>
              /\ CountOf(planner_, "Plan") = 1
              /\ LET solved == LogOf(planner_, {"Plan"})[1].ok
                 IN /\ solved <=> (CountOf(planner_, "GetMiqpTrajectory") = 1)
                    /\ ~solved => CountOf(planner_, "GetMiqpTrajectory") = 0
                    /\ solved <=> call.decoded
                    /\ solved => call.low_speed_check
                    /\ ~solved => /\ call.pc = "returned"
                                  /\ call.status = PlanningError("miqp planner failed!")

\* A STOP cycle decoded a reference trajectory with a sample at rest in full.
C6_Witness ==
  /\ PastDispatch /\ call.planner_status = STOP_TRAJECTORY /\ call.pc = "verify"
  /\ call.size = GetNCMiqpPlanner(planner_)
  /\ \E i \in DOMAIN call.apollo_traj : call.apollo_traj[i].v = 0
  /\ CountOf(planner_, "GetLastReference") = 1

\* C7: trajectory, cost and drivable flag of the reference line info change
\* only in a step in which a planning cycle returns OK; no step of a cycle
\* that ends with an error status touches them.
C7_Step ==
  (rli'.trajectory # rli.trajectory \/ rli'.cost # rli.cost \/
   rli'.drivable # rli.drivable) =>
    (call'.op = "Plan" /\ call'.pc = "returned" /\ call'.status = StatusOK)

C7_ErrorKeepsPublished == [][C7_Step]_vars

\* A cycle failed in the smoother while an earlier trajectory is published.
C7_Witness ==
  /\ call.op = "Plan" /\ call.pc = "returned"
  /\ call.status = PlanningError("Smoothing failed!")
  /\ rli.drivable /\ rli.trajectory.kind = "smoothed"
  /\ Len(rli.trajectory.points) >= 1

\* C8: on either path, a cycle that decoded a trajectory is rejected with the
\* invalid-points error, before the publishing step, if and only if the
\* decoded trajectory has fewer points than the minimum fraction times the
\* configured nr_steps; with exactly that many points it goes on to publish.
C8_TooShortRejected ==
  (call.op = "Plan" /\ call.decoded) =>
    LET too_short ==
          4 * call.size <
            config_.minimum_percentage_valid_miqp_points * config_.nr_steps
    IN /\ too_short <=>
            (call.pc = "returned" /\ call.status = PlanningError("invalid points!"))
       /\ too_short => ~call.reached_publish
       /\ ~too_short => (call.pc \in {"verify", "publish"} \/ call.reached_publish)

\* A truncated trajectory of exactly the minimum length was published.
C8_Witness ==
  /\ call.op = "Plan" /\ call.decoded /\ call.low_speed_check
  /\ call.size < GetNCMiqpPlanner(planner_)
  /\ 4 * call.size =
       config_.minimum_percentage_valid_miqp_points * config_.nr_steps
  /\ call.reached_publish /\ call.status = StatusOK

\* What a cycle ends with.
C9_Outcome(c) == [done |-> c.done, status |-> c.status, rli |-> c.rli]

\* C9: from any state before the verification, the status returned and the
\* reference line info published are the same whatever the two collision
\* checks report; nor do they depend on what was logged once the cycle is
\* about to publish; a cycle that logged a collision still reaches the
\* publishing step.
C9_CollisionOnlyLogged ==
  /\ call.pc = "verify" =>
       \A oc \in BOOLEAN, ec \in BOOLEAN, smooth_ok \in BOOLEAN :
         C9_Outcome(Publish(CheckCollisions(Ctx(call), oc, ec), smooth_ok)) =
           C9_Outcome(Publish(CheckCollisions(Ctx(call), FALSE, FALSE), smooth_ok))
  /\ call.pc = "publish" =>
       \A smooth_ok \in BOOLEAN :
         C9_Outcome(Publish(Ctx(call), smooth_ok)) =
           C9_Outcome(Publish(Ctx([call EXCEPT !.collision_logged = 0]), smooth_ok))
  /\ (call.op = "Plan" /\ call.pc = "returned" /\ call.collision_logged > 0) =>
       /\ call.reached_publish
       /\ call.status = StatusOK \/ call.smoothing = "failed"

\* A cycle in which both checks reported a collision published its trajectory.
C9_Witness ==
  /\ call.op = "Plan" /\ call.pc = "returned" /\ call.collision_logged = 2
  /\ call.status = StatusOK
  /\ rli.drivable /\ rli.trajectory.kind = "decoded"

\* C10: the publishing step returns; with smoothing enabled it returns OK
\* exactly when the smoother succeeds, and then the smoother's trajectory is
\* set with cost 0 and drivable, while on failure it returns the smoothing
\* error and leaves the reference line info alone; with smoothing disabled
\* the decoded trajectory is set with cost 0 and drivable and OK returned.
C10_Step ==
  call.pc = "publish" =>
    /\ call'.pc = "returned" /\ call'.reached_publish
    /\ IF config_.use_smoothing
       THEN /\ call'.smoothing \in {"ok", "failed"}
            /\ (call'.status = StatusOK) <=> (call'.smoothing = "ok")
            /\ call'.smoothing = "ok" =>
                 /\ rli'.trajectory = [points |-> call.apollo_traj, kind |-> "smoothed"]
                 /\ rli'.cost = 0 /\ rli'.drivable
            /\ call'.smoothing = "failed" =>
                 /\ call'.status = PlanningError("Smoothing failed!")
                 /\ rli' = rli
       ELSE /\ call'.status = StatusOK
            /\ rli'.trajectory = [points |-> call.apollo_traj, kind |-> "decoded"]
            /\ rli'.cost = 0 /\ rli'.drivable

C10_PublishSmoothed == [][C10_Step]_vars

\* A cycle published the smoother's trajectory over a hold trajectory.
C10_Witness ==
  /\ call.op = "Plan" /\ call.pc = "returned" /\ call.smoothing = "ok"
  /\ call.status = StatusOK
  /\ rli.trajectory.kind = "smoothed" /\ Len(rli.trajectory.points) >= 1
  /\ config_.use_smoothing

\* C11 as stated: when the engine rejects the registration of an obstacle
\* (index -1), the cycle is aborted with the obstacle-processing error and
\* neither solves nor fetches a trajectory.
C11_RejectionSurfaced ==
  (call.op = "Plan" /\
   \E i \in DOMAIN planner_.calls :
     planner_.calls[i].f = "AddObstacle" /\ planner_.calls[i].idx = InvalidIdx) =>
    /\ call.pc = "returned"
    /\ call.status = PlanningError("processing of obstacles failed!")
    /\ CountOf(planner_, "Plan") = 0
    /\ CountOf(planner_, "GetLastReference") = 0

\* C13 as stated: the engine Init creates has the configured value of every
\* field the configuration passed to Init sets, and the default otherwise.
C13_SettingsFromConfig ==
  phase = "ready" =>
    /\ GetNCMiqpPlanner(planner_) =
         (IF config_.has_nr_steps THEN config_.nr_steps ELSE DefaultNrSteps)
    /\ GetTsCMiqpPlanner(planner_) =
         (IF config_.has_ts THEN config_.ts ELSE DefaultTs)
    /\ GetCollisionRadius(planner_) =
         VehicleParam.width \div 2 +
         (IF config_.has_collision_radius_add THEN config_.collision_radius_add
          ELSE 0)

\* ------------------------------------------------- the decoder on its own
\* RawCTrajectoryToApolloTrajectory applied to the buffers an engine may fill:
\* up to MaxSamples samples, each with one of the velocities Vels (0.1 m/s;
\* above, at and below the valid speed, along either axis, forward and
\* backward) and displaced from the sample before by one of Steps (0.1 m and
\* 0.01 s; none, along an axis, or 3-4-5 diagonal).
MaxSamples == 3
Vels == {<<20, 0>>, <<0, 20>>, <<-6, 0>>, <<5, 0>>, <<0, -5>>, <<0, 0>>}
Steps == {[dx |-> 0, dy |-> 0, dt |-> 0], [dx |-> 3, dy |-> 4, dt |-> 25],
          [dx |-> -5, dy |-> 0, dt |-> 25]}
Samples == [vel : Vels, step : Steps]

\* The accelerations of every sample of a buffer (0.1 m/s^2)
SampleAccel == [ax |-> 2, ay |-> 0]

RECURSIVE SumSteps(_, _, _)
SumSteps(ch, j, field) ==
  IF j = 0 THEN 0 ELSE SumSteps(ch, j - 1, field) + ch[j].step[field]

\* The raw buffer of the samples ch: {time, x, y, vx, vy, ax, ay} per sample
BufferOf(ch) ==
  [j \in 1..Len(ch) |->
     [t |-> SumSteps(ch, j, "dt"), x |-> SumSteps(ch, j, "dx"),
      y |-> SumSteps(ch, j, "dy"), vx |-> ch[j].vel[1], vy |-> ch[j].vel[2],
      ax |-> SampleAccel.ax, ay |-> SampleAccel.ay]]

Buffers == {BufferOf(ch) : ch \in UNION {[1..n -> Samples] : n \in 1..MaxSamples}}

\* The configuration of the decoder's planner: the map offset (0.1 m)
DecodeConfig ==
  [EmptyConfig EXCEPT !.has_miqp_planner_config = TRUE,
                      !.pts_offset_x = 10, !.pts_offset_y = -10]

\* A call of the decoder with its arguments, not yet run.
InitDecode ==
  /\ phase = "ready"
  /\ config_ = DecodeConfig
  /\ planner_ = NoEngine
  /\ firstrun_ = TRUE
  /\ egoCarIdx_ = InvalidIdx
  /\ rli = [trajectory |-> NoTrajectory, cost |-> 0, drivable |-> FALSE,
            is_on_reference_line |-> FALSE]
  /\ \E traj \in Buffers, low_speed_check \in BOOLEAN :
       call = [op |-> "Decode", pc |-> "decode", traj |-> traj,
               size |-> Len(traj), low_speed_check |-> low_speed_check,
               apollo_trajectory |-> <<>>]

\* The decoder runs and returns the trajectory.
DecodeCall ==
  /\ call.op = "Decode" /\ call.pc = "decode"
  /\ call' = [call EXCEPT
                !.pc = "returned",
                !.apollo_trajectory =
                  RawCTrajectoryToApolloTrajectory(call.traj, call.size,
                                                   call.low_speed_check)]
  /\ UNCHANGED <<phase, config_, planner_, firstrun_, egoCarIdx_, rli>>

NextDecode == DecodeCall

SpecDecode == InitDecode /\ [][NextDecode]_vars

\* The decoder has returned.
Decoded == call.op = "Decode" /\ call.pc = "returned"

\* C12: with low_speed_check the decoded trajectory is the buffer up to, and
\* without, the first sample of which neither |vx| nor |vy| exceeds the
\* minimum valid speed, whatever follows that sample, and the whole buffer if
\* there is none; without low_speed_check it is the whole buffer.
C12_TruncatedAtFirstSlow ==
  Decoded =>
    LET N == call.size
        slow == {k \in 0..(N - 1) :
                   /\ Abs(call.traj[k + 1].vx) <= minimum_valid_speed_vx_vy_
                   /\ Abs(call.traj[k + 1].vy) <= minimum_valid_speed_vx_vy_}
        first == IF slow = {} THEN N
                 ELSE CHOOSE k \in slow : \A m \in slow : k <= m
    IN /\ Len(call.apollo_trajectory) =
            (IF call.low_speed_check THEN first ELSE N)
       /\ \A j \in DOMAIN call.apollo_trajectory :
            /\ call.apollo_trajectory[j].x = call.traj[j].x + config_.pts_offset_x
            /\ call.apollo_trajectory[j].y = call.traj[j].y + config_.pts_offset_y

\* A buffer of three samples, the second at the threshold and the third fast
\* again, was cut to one point.
C12_Witness ==
  /\ Decoded /\ call.low_speed_check /\ call.size = 3
  /\ call.traj[1].vy = 20
  /\ call.traj[2].vx = 5 /\ call.traj[2].vy = 0
  /\ call.traj[3].vx = 20
  /\ Len(call.apollo_trajectory) = 1

\* C17: in a decoded trajectory s of the first point is 0, s of each later
\* point is s of the point before plus the Euclidean distance between the
\* two, hence non-decreasing; the points keep the order of the buffer with
\* relative_time the buffer's time, which is non-decreasing when the buffer's
\* times are.
C17_ArcLengthAndTime ==
  Decoded =>
    LET out == call.apollo_trajectory
    IN /\ Len(out) >= 1 => out[1].s = 0
       /\ \A j \in 2..Len(out) :
            LET d == out[j].s - out[j - 1].s
                dx == out[j].x - out[j - 1].x
                dy == out[j].y - out[j - 1].y
            IN d >= 0 /\ d * d = dx * dx + dy * dy
       /\ \A j \in DOMAIN out : out[j].relative_time = call.traj[j].t
       /\ (\A j \in 2..call.size : call.traj[j - 1].t <= call.traj[j].t) =>
            \A j \in 2..Len(out) : out[j - 1].relative_time <= out[j].relative_time

\* Three points were decoded along a diagonal and a straight step.
C17_Witness ==
  /\ Decoded /\ Len(call.apollo_trajectory) = 3
  /\ call.apollo_trajectory[2].s = 5
  /\ call.apollo_trajectory[2].y # call.apollo_trajectory[1].y
  /\ call.apollo_trajectory[3].s = 10
  /\ call.apollo_trajectory[3].relative_time = 50

\* C18 as stated: the curvature of a decoded point is 0 when vx^2 + vy^2 <
\* 1e-3 and otherwise vx*ay - ax*vy over (vx^2 + vy^2) to the power 3/2, which
\* for a speed r along an axis is r^3.
C18_CurvatureDivisor ==
  Decoded =>
    \A j \in DOMAIN call.apollo_trajectory :
      LET smp == call.traj[j]
          r == Abs(smp.vx) + Abs(smp.vy)
          kappa == call.apollo_trajectory[j].kappa
      IN IF r = 0 THEN kappa.num = 0
         ELSE /\ kappa.num = smp.vx * smp.ay - smp.ax * smp.vy
              /\ kappa.den = r * r * r

\* ------------------------------------------ the obstacle aggregation at large
\* Driving cycles of a planner that considers obstacles, with every fault of
\* the registration: the solve succeeds, nothing is slow, nothing collides.
\* The static margins (length, width): the length alone, none, the width
\* alone, and a length that shrinks the box.
StaticMargins == {<<6, 0>>, <<0, 0>>, <<0, 4>>, <<-2, 0>>}

ObstacleConfigs ==
  {[config EXCEPT !.extension_length_static = m[1],
                  !.extension_width_static = m[2],
                  !.merge_static_obstacles = merge] :
     config \in {f \in FlagConfigs :
                   f.consider_obstacles /\ ~f.use_environment_polygon},
     m \in StaticMargins, merge \in BOOLEAN}

\* The obstacles of the scene, a third static one behind the fourth, and a
\* virtual one with a predicted trajectory.
ObstaclePool ==
  Scene \o
  <<[id |-> 5, virtual |-> FALSE, has_traj |-> FALSE, lo |-> 180, hi |-> 200, vel |-> 0],
    [id |-> 6, virtual |-> TRUE, has_traj |-> TRUE, lo |-> 60, hi |-> 80, vel |-> 20]>>

\* The orders in which the obstacles of the pool come in a frame.
ObstacleOrders ==
  {<<1, 2, 3, 4>>, <<1, 5, 4, 2>>, <<4, 1, 5, 6>>, <<6, 2, 1, 4>>,
   <<5, 4, 1, 3>>, <<2, 6, 3, 5>>}

\* The frames: the first obstacles of every order, up to MaxObstacles + 1.
ObstacleFrames ==
  {[i \in 1..n |-> ObstaclePool[order[i]]] :
     order \in ObstacleOrders,
     n \in 0..(IF MaxObstacles + 1 < 4 THEN MaxObstacles + 1 ELSE 4)}

NextObstacles ==
  \/ \E config \in ObstacleConfigs : MiqpPlannerInit(config)
  \/ PlanEnter(DRIVING_TRAJECTORY, 80)
  \/ \E add_car_idx \in (IF firstrun_ THEN {0} ELSE {InvalidIdx}) :
       PlanEgo(add_car_idx)
  \/ \E obstacles \in ObstacleFrames, fault \in Faults :
       PlanObstacles(obstacles, fault)
  \/ PlanSolve(TRUE, GetNCMiqpPlanner(planner_))
  \/ PlanVerify(FALSE, FALSE)
  \/ \E smooth_ok \in (IF config_.use_smoothing THEN BOOLEAN ELSE {TRUE}) :
       PlanPublish(smooth_ok)

SpecObstacles == Init /\ [][NextObstacles]_vars

\* C19 as stated: when the inflation of an obstacle polygon fails, no obstacle
\* is registered with unwritten corner values, and the cycle is aborted with
\* the obstacle-processing error before any solve.
C19_InflationFailureSurfaced ==
  call.op = "Plan" =>
    /\ \A k \in DOMAIN planner_.obstacles :
         \A j \in DOMAIN planner_.obstacles[k].pts :
           planner_.obstacles[k].pts[j].written
    /\ (\E i \in DOMAIN planner_.calls :
          planner_.calls[i].f = "FillInflatedPtsFromPolygon" /\ ~planner_.calls[i].ok) =>
         /\ call.pc = "returned"
         /\ call.status = PlanningError("processing of obstacles failed!")
         /\ CountOf(planner_, "AddObstacle") = 0
         /\ CountOf(planner_, "Plan") = 0

\* ------------------------------------------------ the trajectory smoother
\* TrajectorySmootherNLOpt: one smoother object and the calls made on it.
\* Jerk and curvature-rate start values are small integers; the object is kept
\* in the variable call while the planner's variables rest.

\* enum nlopt::result, as named by the switch in Optimize
nlopt ==
  [FAILURE |-> -1, INVALID_ARGS |-> -2, OUT_OF_MEMORY |-> -3,
   ROUNDOFF_LIMITED |-> -4, FORCED_STOP |-> -5, SUCCESS |-> 1,
   STOPVAL_REACHED |-> 2, FTOL_REACHED |-> 3, XTOL_REACHED |-> 4,
   MAXEVAL_REACHED |-> 5, MAXTIME_REACHED |-> 6]

STATES_SIZE == 6
INPUTS_SIZE == 2

\* What opt.optimize(u_, j_opt_) can do: return a result code, or throw
\* nlopt::roundoff_limited or another std::exception.
Returned(code) == [kind |-> "returned", code |-> code, what |-> "none"]
Thrown(what) == [kind |-> "thrown", code |-> 0, what |-> what]
NotInvoked == [kind |-> "none", code |-> 0, what |-> "none"]

OptimizerOutcomes ==
  {Returned(code) : code \in (-5..-1) \cup (1..6)}
    \cup {Thrown("roundoff_limited"), Thrown("exception")}

\* The iterate the optimizer leaves in the vector it was handed.
OptimizedInput(u) == [j \in DOMAIN u |-> 9]

\* std::vector<double>::resize(n): the prefix is kept, new entries are 0.
Resize(vec, n) == [j \in 1..n |-> IF j <= Len(vec) THEN vec[j] ELSE 0]

\* Bound on the length of an input trajectory and on the subsampling factor.
MaxInputPoints == 3
MaxSubsampling == 2

\* Trajectory points as the smoother reads them: the six state values, da and
\* dkappa.
InputPoint(k) ==
  [state |-> <<8 * k, 0, 0, 4, 0, 0>>, da |-> 2 * k + 1, dkappa |-> 2 * k + 2]

\* The input trajectories: the first n points of one trajectory.
InputTrajectories ==
  {[k \in 1..n |-> InputPoint(k)] : n \in 0..MaxInputPoints}

\* The start-value loops of InitializeProblem, pass p of input_traj_size *
\* subsampling passes in the order of the loops.
RECURSIVE StartValues(_, _, _, _)
StartValues(u, p, subsampling, input_trajectory) ==
  IF subsampling = 0 \/ p >= Len(input_trajectory) * subsampling THEN u
  ELSE LET idx_input == p \div subsampling
           idx_subsample == p % subsampling
           idx == idx_input + idx_subsample
           J == 0
           XI == 1
       IN StartValues(
            [u EXCEPT ![idx + J + 1] = input_trajectory[idx_input + 1].da,
                      ![idx + XI + 1] = input_trajectory[idx_input + 1].dkappa],
            p + 1, subsampling, input_trajectory)

\* TrajectorySmootherNLOpt::InitializeProblem
InitializeProblem(s, subsampling, input_trajectory) ==
  LET input_traj_size == Len(input_trajectory)
      off == [s EXCEPT !.ready_to_optimize_ = FALSE,
                       !.last = "InitializeProblem",
                       !.last_input_size = input_traj_size]
  IN IF input_traj_size < 1 THEN off
     ELSE IF input_traj_size = 1 THEN off
     ELSE LET nr_intermediate_pts == (input_traj_size - 1) * subsampling
              problem_size ==
                (input_traj_size + nr_intermediate_pts) * INPUTS_SIZE
          IN [off EXCEPT
                !.problem_size_ = problem_size,
                !.u_ = StartValues(Resize(s.u_, problem_size), 0, subsampling,
                                   input_trajectory),
                !.x0_ = input_trajectory[1].state,
                !.X_ref_ = [j \in 1..input_traj_size |->
                              input_trajectory[j].state],
                !.lower_bound_ = Resize(s.lower_bound_, problem_size),
                !.upper_bound_ = Resize(s.upper_bound_, problem_size),
                !.status_ = 0,
                !.ready_to_optimize_ = TRUE]

\* The switch of Optimize on the status: the halt for roundoff errors is
\* renumbered, every other value is only logged.
ClassifyStatus_Verbatim(status) == status

ClassifyStatus(status) ==
  IF status = nlopt.ROUNDOFF_LIMITED THEN 10 ELSE status

\* The options and callbacks Optimize installs on the optimizer instance.
OptimizerSetup(s) ==
  {"xtol_rel", "xtol_abs", "maxeval", "min_objective"}
    \cup (IF s.lower_bound_ # <<>> THEN {"lower_bounds"} ELSE {})
    \cup (IF s.upper_bound_ # <<>> THEN {"upper_bounds"} ELSE {})
    \cup (IF s.num_ineq_constr_ > 0 THEN {"inequality_mconstraint"} ELSE {})
    \cup (IF s.num_eq_constr_ > 0 THEN {"equality_mconstraint"} ELSE {})

\* TrajectorySmootherNLOpt::Optimize, the optimizer doing outcome and leaving
\* its iterate in u_.
Optimize(s, outcome) ==
  IF ~s.ready_to_optimize_
  THEN [s EXCEPT !.last = "Optimize", !.outcome = NotInvoked, !.opt = {},
                 !.ret = -100]
  ELSE LET ran == [s EXCEPT !.last = "Optimize", !.outcome = outcome,
                            !.opt = OptimizerSetup(s),
                            !.u_ = OptimizedInput(s.u_)]
       IN IF outcome.kind = "returned"
          THEN [ran EXCEPT !.status_ = ClassifyStatus(outcome.code),
                           !.ret = ClassifyStatus(outcome.code)]
          ELSE IF outcome.what = "roundoff_limited"
          THEN [ran EXCEPT !.status_ = ClassifyStatus(s.status_),
                           !.ret = ClassifyStatus(s.status_)]
          ELSE [ran EXCEPT !.status_ = -11, !.ret = -11]

\* The values an int that was never written can hold.
IndeterminateStatus == {-1, 0, 1}

\* A constructed smoother: the constructor sets the constraint counts and
\* leaves ready_to_optimize_, status_ and problem_size_ unwritten.  The fields
\* last, last_input_size, outcome, opt and ret record the calls: the last
\* call, the length of the input of the last InitializeProblem (-1 before the
\* first), what the optimizer did in the last Optimize, the options that
\* Optimize installed, and what it returned.
InitSmoother ==
  /\ phase = "ready"
  /\ config_ = EmptyConfig
  /\ planner_ = NoEngine
  /\ firstrun_ = TRUE
  /\ egoCarIdx_ = InvalidIdx
  /\ rli = [trajectory |-> NoTrajectory, cost |-> 0, drivable |-> FALSE,
            is_on_reference_line |-> FALSE]
  /\ \E ready \in BOOLEAN, status \in IndeterminateStatus,
        size \in {0, INPUTS_SIZE} :
       call = [op |-> "Smoother", last |-> "constructor",
               last_input_size |-> -1,
               ready_to_optimize_ |-> ready, status_ |-> status,
               problem_size_ |-> size, u_ |-> <<>>, x0_ |-> <<>>,
               X_ref_ |-> <<>>, lower_bound_ |-> <<>>, upper_bound_ |-> <<>>,
               num_ineq_constr_ |-> 0, num_eq_constr_ |-> 0,
               outcome |-> NotInvoked, opt |-> {}, ret |-> 0]

SmootherInitializeProblem(subsampling, input_trajectory) ==
  /\ call.op = "Smoother"
  /\ call' = InitializeProblem(call, subsampling, input_trajectory)
  /\ UNCHANGED <<phase, config_, planner_, firstrun_, egoCarIdx_, rli>>

SmootherOptimize(outcome) ==
  /\ call.op = "Smoother"
  /\ call' = Optimize(call, outcome)
  /\ UNCHANGED <<phase, config_, planner_, firstrun_, egoCarIdx_, rli>>

NextSmoother ==
  \/ \E subsampling \in 0..MaxSubsampling,
        input_trajectory \in InputTrajectories :
       SmootherInitializeProblem(subsampling, input_trajectory)
  \/ \E outcome \in OptimizerOutcomes : SmootherOptimize(outcome)

SpecSmoother == InitSmoother /\ [][NextSmoother]_vars

\* Optimize has returned after invoking the optimizer.
Optimized == call.op = "Smoother" /\ call.last = "Optimize"

\* C14 as stated: when the optimizer throws its roundoff-limited exception,
\* Optimize keeps the result and returns a positive status, whatever the
\* smoother's state before the call.
C14_RoundoffExceptionIsSuccess ==
  (Optimized /\ call.outcome = Thrown("roundoff_limited")) => call.ret > 0

\* The smoother was set up on a trajectory and the optimizer then threw the
\* roundoff-limited exception at its first call: Optimize returned 0.
C14_Observed ==
  /\ Optimized /\ call.outcome = Thrown("roundoff_limited")
  /\ call.X_ref_ # <<>> /\ call.ret = 0

\* C20: when the optimizer returns a code, Optimize returns a positive code
\* as it is and the roundoff-limited code as 10, and these are its only
\* positive results; it returns the codes for invalid arguments, out of memory
\* and generic failure unchanged; when the optimizer throws an exception other
\* than the roundoff-limited one, it returns -11.  (What it returns after the
\* roundoff-limited exception is the matter of C14.)
C20_OutcomeClassification ==
  Optimized =>
    LET o == call.outcome
    IN /\ o.kind = "returned" =>
            /\ o.code > 0 => call.ret = o.code
            /\ o.code = nlopt.ROUNDOFF_LIMITED => call.ret = 10
            /\ o.code \in {nlopt.INVALID_ARGS, nlopt.OUT_OF_MEMORY,
                           nlopt.FAILURE} => call.ret = o.code
            /\ call.ret > 0 <=> (o.code > 0 \/ o.code = nlopt.ROUNDOFF_LIMITED)
       /\ o = Thrown("exception") => call.ret = -11

\* The optimizer returned the roundoff-limited code and Optimize returned 10.
C20_Witness ==
  /\ Optimized /\ call.outcome = Returned(nlopt.ROUNDOFF_LIMITED)
  /\ call.ret = 10 /\ call.status_ = 10

\* ------------------------------------- the step model and its integration
\* States are <<x, y, theta, v, a, kappa>> and inputs <<j, xi>> over the
\* integers, theta in quarter turns and kappa in quarter turns per length, so
\* that cos and sin are exact; the step size h is even and v is even, so that
\* every product the code halves is even.
X == 1
Y == 2
THETA == 3
V == 4
A == 5
KAPPA == 6
J == 1
XI == 2

\* cos and sin of an angle in quarter turns
cos(theta) == LET q == theta % 4 IN IF q = 0 THEN 1 ELSE IF q = 2 THEN -1 ELSE 0
sin(theta) == LET q == theta % 4 IN IF q = 1 THEN 1 ELSE IF q = 3 THEN -1 ELSE 0

\* 0.5 * n for an even n
Half(n) == n \div 2

\* the heading update with the predicted acceleration c4 in the place of the
\* predicted curvature c3
model_f_theta_AccelCorrector(x, u, h) ==
  LET c1 == x[V] + h * x[A]
      c4 == x[A] + h * u[J]
  IN x[THETA] + Half(h * x[V] * x[KAPPA]) + Half(h * c1 * c4)

\* the heading update of model_f: theta + 0.5 h v kappa + 0.5 h c1 c3
model_f_theta(x, u, h) ==
  LET c1 == x[V] + h * x[A]
      c3 == x[KAPPA] + h * u[XI]
  IN x[THETA] + Half(h * x[V] * x[KAPPA]) + Half(h * c1 * c3)

\* TrajectorySmootherNLOpt::model_f
model_f(x, u, h) ==
  LET sinth == sin(x[THETA])
      costh == cos(x[THETA])
      c1 == x[V] + h * x[A]
      c2 == x[THETA] + h * x[V] * x[KAPPA]
      c3 == x[KAPPA] + h * u[XI]
      c4 == x[A] + h * u[J]
      x1 == x[X] + Half(h * x[V] * costh) + Half(h * c1 * cos(c2))
      y1 == x[Y] + Half(h * x[V] * sinth) + Half(h * c1 * sin(c2))
      theta1 == model_f_theta(x, u, h)
      v1 == x[V] + Half(h * x[A]) + Half(h * c4)
      a1 == c4
      kappa1 == c3
  IN <<x1, y1, theta1, v1, a1, kappa1>>

\* TrajectorySmootherNLOpt::model_dfdx, the rows as the comma initializer
\* fills them
model_dfdx(x, u, h) ==
  LET sinth == sin(x[THETA])
      costh == cos(x[THETA])
      c1 == x[V] + h * x[A]
      c2 == x[THETA] + h * x[V] * x[KAPPA]
      dx1_dth0 == -Half(h * x[V] * sinth) - Half(c1 * sin(c2))
      dy1_dth0 == Half(h * x[V] * costh) + Half(h * c1 * cos(c2))
      dx1_dv0 == Half(h * costh) + Half(h * cos(c2)) - Half(h * c1 * sin(c2))
      dy1_dv0 == Half(h * sinth) + Half(h * sin(c2)) + Half(h * c1 * cos(c2))
      dth1_dv0 == h * x[KAPPA] + Half(h * h * u[XI])
      dx1_da0 == Half(h * h * cos(c2))
      dy1_da0 == Half(h * h * sin(c2))
      dth1_da0 == Half(h * h * (x[KAPPA] + h * u[XI]))
      dx1_dkappa0 == -Half(h * h * x[V] * c1 * sin(c2))
      dy1_dkappa0 == Half(h * h * x[V] * c1 * cos(c2))
      dth1_dkappa0 == h * x[V] + Half(h * h * x[A])
  IN << <<1, 0, dx1_dth0, dx1_dv0, dx1_da0, dx1_dkappa0>>,
        <<0, 1, dy1_dth0, dy1_dv0, dy1_da0, dy1_dkappa0>>,
        <<0, 0, 1, dth1_dv0, dth1_da0, dth1_dkappa0>>,
        <<0, 0, 0, 1, h, 0>>,
        <<0, 0, 0, 0, 1, 0>>,
        <<0, 0, 0, 0, 0, 1>> >>

\* TrajectorySmootherNLOpt::model_dfdu: the twelve values of the comma
\* initializer fill the 6 x 2 matrix row by row
model_dfdu(x, u, h) ==
  << <<0, 0>>,
     <<0, Half(h * h)>>,
     <<h, 0>>,
     <<0, 0>>,
     <<Half(h * h * x[V]) + Half(h * h * h * x[A]), 0>>,
     <<0, h>> >>

\* dXdU.fill(0): one 6 x 2 block
ZeroBlock == [r \in 1..STATES_SIZE |-> [c \in 1..INPUTS_SIZE |-> 0]]

\* the product of a 6 x 6 matrix and a 6 x 2 block
Times(M, B) ==
  [r \in 1..STATES_SIZE |->
     [c \in 1..INPUTS_SIZE |->
        M[r][1] * B[1][c] + M[r][2] * B[2][c] + M[r][3] * B[3][c]
          + M[r][4] * B[4][c] + M[r][5] * B[5][c] + M[r][6] * B[6][c]]]

\* What the undefined accesses of IntegrateModel come to in a build: with
\* Eigen's assertions compiled in (checked) the first of them aborts the
\* process; without them u.col(i - 1) of a column vector reads behind u for
\* i >= 2 (garbage[i] is what it finds there), and the block at column
\* dimU * N is read and written behind dXdU, where currB_ or other memory lies.
IndeterminateInputs == {<<0, 0>>, <<-3, 2>>}

Builds(N) ==
  [checked : BOOLEAN, garbage : [2..(N - 1) -> IndeterminateInputs],
   stray : {"elsewhere", "currB_"}]

\* a block of values that were never written by the program
IndeterminateBlock == [r \in 1..STATES_SIZE |-> [c \in 1..INPUTS_SIZE |-> -7]]

\* Row i of dXdU after step i, with the column blocks shifted by one: the
\* local dfdu lands on input block i, the chain on the blocks up to i - 1.
SensitivityRow_Shifted(i, N, currA, currB, dXdU) ==
  [k \in 1..N |->
     IF k = i + 1 THEN currB
     ELSE IF k <= i THEN Times(currA, dXdU[i][k])
     ELSE dXdU[i + 1][k]]

\* Row i of dXdU after step i of IntegrateModel (block k of the row stands at
\* index k + 1, row i at index i + 1): the block of input i - 1 is currB_, the
\* loop over n = 1..i-1 writes the blocks of the inputs 0..i-2, the others
\* keep the fill.
SensitivityRow(i, N, currA, currB, dXdU) ==
  [k \in 1..N |->
     IF k = i THEN currB
     ELSE IF k < i THEN Times(currA, dXdU[i][k])
     ELSE dXdU[i + 1][k]]

\* An access to width entries from offset on, along a dimension of extent
\* entries of a container.
Access(what, offset, width, extent) ==
  [what |-> what, offset |-> offset, width |-> width, extent |-> extent]

\* The accesses of step i up to the calls of the step model: the state block
\* i - 1 of X and u.col(i - 1), which starts (i - 1) * u.size() entries into u.
AccessesBefore(i, N, u) ==
  {Access("X", (i - 1) * STATES_SIZE, STATES_SIZE, STATES_SIZE * N),
   Access("u", (i - 1) * Len(u), INPUTS_SIZE, Len(u))}

\* The accesses of step i after them: the state block i of X, and in dXdU
\* the rows of the states i and i - 1, the column block of input i - 1, the
\* column block at dimU * N and the column blocks of the inputs 0..i-2.
AccessesAfter(i, N) ==
  {Access("X", i * STATES_SIZE, STATES_SIZE, STATES_SIZE * N),
   Access("dXdU rows", i * STATES_SIZE, STATES_SIZE, STATES_SIZE * N),
   Access("dXdU rows", (i - 1) * STATES_SIZE, STATES_SIZE, STATES_SIZE * N),
   Access("dXdU cols", (i - 1) * INPUTS_SIZE, INPUTS_SIZE, INPUTS_SIZE * N),
   Access("dXdU cols", INPUTS_SIZE * N, INPUTS_SIZE, INPUTS_SIZE * N)}
    \cup {Access("dXdU cols", (n - 1) * INPUTS_SIZE, INPUTS_SIZE,
                 INPUTS_SIZE * N) : n \in 1..(i - 1)}

\* The loop of IntegrateModel from step i on.
RECURSIVE IntegrateFrom(_, _, _, _, _, _)
IntegrateFrom(i, N, u, h, build, r) ==
  IF i >= N THEN r
  ELSE IF build.checked
  THEN [r EXCEPT !.pc = "aborted",
                 !.accesses = @ \cup AccessesBefore(i, N, u)]
  ELSE LET x_before == r.X[i]
           u_col == IF i = 1 THEN <<u[1], u[2]>> ELSE build.garbage[i]
           currx == model_f(x_before, u_col, h)
           currA == model_dfdx(x_before, u_col, h)
           currB == model_dfdu(x_before, u_col, h)
       IN IntegrateFrom(i + 1, N, u, h, build,
            [r EXCEPT
               !.X = Append(@, currx),
               !.dXdU[i + 1] = SensitivityRow(i, N, currA, currB, r.dXdU),
               !.currx_ = currx,
               !.currA_ = currA,
               !.currB_ = IF build.stray = "currB_" THEN IndeterminateBlock
                          ELSE currB,
               !.u_read = Append(@, u_col),
               !.accesses =
                 @ \cup AccessesBefore(i, N, u) \cup AccessesAfter(i, N)])

\* TrajectorySmootherNLOpt::IntegrateModel(x0, u, N, h, X, dXdU): X holds the
\* states 0..N-1, dXdU the N x N blocks, u_read the input each step read.
IntegrateModel(x0, u, N, h, build) ==
  IntegrateFrom(1, N, u, h, build,
    [pc |-> "returned", X |-> <<x0>>,
     dXdU |-> [i \in 1..N |-> [k \in 1..N |-> ZeroBlock]],
     currx_ |-> <<>>, currA_ |-> <<>>, currB_ |-> ZeroBlock, u_read |-> <<>>,
     accesses |-> {Access("X", 0, STATES_SIZE, STATES_SIZE * N)}])

\* Bound on the number of integration steps.
MaxSteps == 3

StepSizes == {0, 2}

\* the states model_f is applied to
ModelStates ==
  {<<p[1], p[2], theta, v, a, kappa>> :
     p \in {<<0, 0>>, <<3, -3>>}, theta \in -1..2, v \in {-2, 0, 4},
     a \in {-1, 0, 2}, kappa \in {0, 1}}

InputBlocks == {<<0, 0>>, <<1, 0>>, <<0, 1>>}

\* the stacked input vector of a sequence of input blocks
Stack(blocks) ==
  [j \in 1..(INPUTS_SIZE * Len(blocks)) |->
     blocks[(j + 1) \div INPUTS_SIZE][((j - 1) % INPUTS_SIZE) + 1]]

InitModel ==
  /\ phase = "ready"
  /\ config_ = EmptyConfig
  /\ planner_ = NoEngine
  /\ firstrun_ = TRUE
  /\ egoCarIdx_ = InvalidIdx
  /\ rli = [trajectory |-> NoTrajectory, cost |-> 0, drivable |-> FALSE,
            is_on_reference_line |-> FALSE]
  /\ \/ \E x \in ModelStates, u \in InputBlocks, h \in StepSizes,
           op \in {"model_f", "model_dfdx", "model_dfdu"} :
          call = [op |-> op, pc |-> "call", x |-> x, u |-> u, h |-> h,
                  x_out |-> <<>>, dfdx_out |-> <<>>, dfdxi_out |-> <<>>]
     \/ \E x0 \in {<<0, 0, 0, 4, 0, 0>>, <<3, -3, 1, 2, -1, 1>>},
           N \in 1..MaxSteps, h \in StepSizes :
          \E blocks \in [1..N -> InputBlocks], build \in Builds(N) :
            call = [op |-> "IntegrateModel", pc |-> "call", x0 |-> x0,
                    u |-> Stack(blocks), N |-> N, h |-> h, build |-> build,
                    result |-> <<>>]

ModelFCall ==
  /\ call.op = "model_f" /\ call.pc = "call"
  /\ call' = [call EXCEPT !.pc = "returned",
                          !.x_out = model_f(call.x, call.u, call.h)]
  /\ UNCHANGED <<phase, config_, planner_, firstrun_, egoCarIdx_, rli>>

IntegrateModelCall ==
  /\ call.op = "IntegrateModel" /\ call.pc = "call"
  /\ \E r \in {IntegrateModel(call.x0, call.u, call.N, call.h, call.build)} :
       call' = [call EXCEPT !.pc = r.pc, !.result = r]
  /\ UNCHANGED <<phase, config_, planner_, firstrun_, egoCarIdx_, rli>>

ModelDfdxCall ==
  /\ call.op = "model_dfdx" /\ call.pc = "call"
  /\ call' = [call EXCEPT !.pc = "returned",
                          !.dfdx_out = model_dfdx(call.x, call.u, call.h)]
  /\ UNCHANGED <<phase, config_, planner_, firstrun_, egoCarIdx_, rli>>

ModelDfduCall ==
  /\ call.op = "model_dfdu" /\ call.pc = "call"
  /\ call' = [call EXCEPT !.pc = "returned",
                          !.dfdxi_out = model_dfdu(call.x, call.u, call.h)]
  /\ UNCHANGED <<phase, config_, planner_, firstrun_, egoCarIdx_, rli>>

NextModel ==
  ModelFCall \/ ModelDfdxCall \/ ModelDfduCall \/ IntegrateModelCall

SpecModel == InitModel /\ [][NextModel]_vars

\* C15: model_f with h = 0 and the input j = 0, xi = 0 returns the state it
\* was given, and with h > 0, kappa = 0 and xi = 0 it returns the heading it
\* was given, whatever the speed, the acceleration and the jerk.
C15_StepModelFixedPoints ==
  (call.op = "model_f" /\ call.pc = "returned") =>
    /\ (call.h = 0 /\ call.u = <<0, 0>>) => call.x_out = call.x
    /\ (call.h > 0 /\ call.x[KAPPA] = 0 /\ call.u[XI] = 0) =>
         call.x_out[THETA] = call.x[THETA]

\* A step of h = 2 from a quarter-turn heading at speed 4 with acceleration
\* and jerk, without curvature: the vehicle moved and kept the heading.
C15_Witness ==
  /\ call.op = "model_f" /\ call.pc = "returned"
  /\ call.h = 2 /\ call.x[KAPPA] = 0 /\ call.u = <<1, 0>>
  /\ call.x[V] = 4 /\ call.x[A] = 2 /\ call.x[THETA] = 1
  /\ call.x_out[Y] # call.x[Y] /\ call.x_out[V] # call.x[V]
  /\ call.x_out[THETA] = 1

\* IntegrateModel has returned.
Integrated == call.op = "IntegrateModel" /\ call.pc = "returned"

C21_InputJacobian ==
  (call.op = "model_dfdu" /\ call.pc = "returned") =>
    LET h == call.h
        x == call.x
        expected == [r \in 1..STATES_SIZE |-> [c \in 1..INPUTS_SIZE |->
                       IF r = V /\ c = J THEN Half(h * h)
                       ELSE IF r = A /\ c = J THEN h
                       ELSE IF r = THETA /\ c = XI
                         THEN Half(h * h * x[V]) + Half(h * h * h * x[A])
                       ELSE IF r = KAPPA /\ c = XI THEN h
                       ELSE 0]]
    IN call.dfdxi_out = expected

\* model_dfdu was called with h = 2: 0.5 h^2 stands in row y, column xi, and
\* row v, column j holds 0.
C21_Observed ==
  /\ call.op = "model_dfdu" /\ call.pc = "returned" /\ call.h = 2
  /\ call.dfdxi_out[Y][XI] = 2
  /\ call.dfdxi_out[V][J] = 0
  /\ call.dfdxi_out[V][J] #
       model_f(call.x, <<call.u[J] + 1, call.u[XI]>>, call.h)[V]
         - model_f(call.x, call.u, call.h)[V]

\* C30 as stated: for h = 0 model_dfdx returns the 6 x 6 identity matrix, for
\* every state and input.
C30_IdentityAtZeroStep ==
  (call.op = "model_dfdx" /\ call.pc = "returned" /\ call.h = 0) =>
    call.dfdx_out =
      [r \in 1..STATES_SIZE |-> [c \in 1..STATES_SIZE |->
         IF r = c THEN 1 ELSE 0]]

\* model_dfdx was called with h = 0 at a quarter-turn heading and speed 4:
\* the entry of x with respect to theta is -0.5 v sin(theta) = -2, while
\* model_f returns the state unchanged.
C30_Observed ==
  /\ call.op = "model_dfdx" /\ call.pc = "returned" /\ call.h = 0
  /\ call.x[THETA] = 1 /\ call.x[V] = 4
  /\ call.dfdx_out[X][THETA] = -2
  /\ model_f(call.x, call.u, call.h) = call.x

\* C27 as stated: for every N >= 1 every block IntegrateModel reads or writes
\* lies inside its container: the state blocks inside the 6N entries of X,
\* the sensitivity blocks inside the 6N rows and 2N columns of dXdU, the
\* input block of each step inside u.
C27_AccessesInBounds ==
  (call.op = "IntegrateModel" /\ call.pc # "call") =>
    \A a \in call.result.accesses :
      a.offset >= 0 /\ a.offset + a.width <= a.extent

\* Two steps were integrated without Eigen's assertions: the one step of the
\* loop accessed the columns 4 and 5 of the 4 columns of dXdU.
C27_Observed ==
  /\ Integrated /\ call.N = 2
  /\ Access("dXdU cols", 4, 2, 4) \in call.result.accesses

\* C25 as stated: before it invokes the optimizer, Optimize applies the
\* relative and the absolute step tolerance, the maximum number of
\* evaluations and the maximum wall-clock time of the solver parameters, so
\* that no optimize call runs without a time limit.
C25_BudgetApplied ==
  (Optimized /\ call.outcome.kind # "none") =>
    {"xtol_rel", "xtol_abs", "maxeval", "maxtime"} \subseteq call.opt

\* The optimizer ran with the tolerances and the evaluation limit, and
\* without a time limit.
C25_Observed ==
  /\ Optimized /\ call.outcome = Returned(nlopt.MAXEVAL_REACHED)
  /\ call.last_input_size >= 2
  /\ {"xtol_rel", "xtol_abs", "maxeval"} \subseteq call.opt
  /\ "maxtime" \notin call.opt

\* C26 as stated: InitializeProblem on n >= 2 points with subsampling s leaves
\* n + (n-1)*s blocks of two entries in u, bound vectors as long as u, and in
\* every block the da and the dkappa of the input point that precedes the
\* sub-step (block b follows input point b div (s+1)), whatever u held before.
C26_Step ==
  \A subsampling \in 0..MaxSubsampling, input_trajectory \in InputTrajectories :
    (/\ call.op = "Smoother"
     /\ Len(input_trajectory) >= 2
     /\ call' = InitializeProblem(call, subsampling, input_trajectory)) =>
      LET n == Len(input_trajectory)
          blocks == n + (n - 1) * subsampling
      IN /\ Len(call'.u_) = INPUTS_SIZE * blocks
         /\ Len(call'.lower_bound_) = Len(call'.u_)
         /\ Len(call'.upper_bound_) = Len(call'.u_)
         /\ \A b \in 0..(blocks - 1) :
              LET pt == input_trajectory[(b \div (subsampling + 1)) + 1]
              IN /\ call'.u_[INPUTS_SIZE * b + J] = pt.da
                 /\ call'.u_[INPUTS_SIZE * b + XI] = pt.dkappa

C26_StartValues == [][C26_Step]_vars

\* InitializeProblem ran on two points (da 3 and 5, dkappa 4 and 6) with
\* subsampling 1: u is 3, 5, 6, 0, 0, 0 and not 3, 4, 3, 4, 5, 6.
C26_Observed ==
  /\ call.op = "Smoother" /\ call.last = "InitializeProblem"
  /\ call.last_input_size = 2 /\ call.ready_to_optimize_
  /\ call.u_ = <<3, 5, 6, 0, 0, 0>>

\* C28 as stated: an Optimize call that follows an InitializeProblem on fewer
\* than 2 points returns -100 without invoking the optimizer, whatever
\* happened on the object before, and the optimizer is only ever invoked when
\* the most recent InitializeProblem had at least 2 points.
C28_OptimizeNeedsProblem ==
  Optimized =>
    /\ call.last_input_size \in {0, 1} =>
         (call.ret = -100 /\ call.outcome = NotInvoked)
    /\ call.outcome.kind # "none" => call.last_input_size >= 2

\* Optimize invoked the optimizer on a smoother on which InitializeProblem
\* was never called.
C28_Observed ==
  /\ Optimized /\ call.last_input_size = -1
  /\ call.outcome.kind = "returned" /\ call.ret = call.outcome.code
  /\ call.u_ = <<>>

\* Every Optimize call that follows an InitializeProblem invokes the
\* optimizer exactly if the most recent InitializeProblem had 2 points or
\* more, and returns -100 otherwise.
OptimizeAfterInitializeProblem ==
  (Optimized /\ call.last_input_size >= 0) =>
    /\ call.outcome.kind # "none" <=> call.last_input_size >= 2
    /\ call.outcome.kind = "none" => call.ret = -100

\* C29 as stated: the horizon length of the too-short test is the N the
\* engine was created with, the size of the raw buffer, for every
\* configuration Init was called with: a decoded trajectory is rejected as too
\* short exactly if it has fewer points than the minimum fraction of N.
C29_HorizonOfEngine ==
  (call.op = "Plan" /\ call.decoded) =>
    LET N == GetNCMiqpPlanner(planner_)
        too_short ==
          4 * call.size < config_.minimum_percentage_valid_miqp_points * N
    IN too_short <=>
         (call.pc = "returned" /\ call.status = PlanningError("invalid points!"))

\* With nr_steps = 24 configured and the whole horizon required, the engine
\* has N = 20 and a trajectory of all its 20 points was rejected as too short.
C29_Observed ==
  /\ call.op = "Plan" /\ call.decoded
  /\ config_.has_nr_steps /\ config_.nr_steps = DefaultNrSteps + 4
  /\ GetNCMiqpPlanner(planner_) = DefaultNrSteps
  /\ call.size = GetNCMiqpPlanner(planner_)
  /\ call.pc = "returned" /\ call.status = PlanningError("invalid points!")

\* ------------------------------------------- the registration of obstacles
\* The obstacles of the frame have been registered and nothing went wrong:
\* no inflation failed and the engine rejected none.
Registered ==
  /\ call.op = "Plan" /\ call.pc = "plan" /\ config_.consider_obstacles
  /\ \A i \in DOMAIN planner_.calls :
       /\ planner_.calls[i].f # "FillInflatedPtsFromPolygon"
       /\ planner_.calls[i].f = "AddObstacle" => planner_.calls[i].idx # InvalidIdx

\* The static and the dynamic obstacles of the engine, in their order.
StaticEntries(eng) == SelectSeq(eng.obstacles, LAMBDA ob : ob.is_static)
DynamicEntries(eng) == SelectSeq(eng.obstacles, LAMBDA ob : ~ob.is_static)

\* C22 as stated: static obstacles are registered as soft exactly if one of
\* the static margins is not zero, negative margins included, and as hard
\* when both are zero.
C22_SoftIffMargin ==
  Registered =>
    \A k \in DOMAIN planner_.obstacles :
      planner_.obstacles[k].is_static =>
        (planner_.obstacles[k].is_soft <=>
           (config_.extension_length_static # 0
              \/ config_.extension_width_static # 0))

\* With the static length margin -0.2 m and the width margin 0 a static
\* obstacle was registered as hard.
C22_Observed ==
  /\ Registered
  /\ config_.extension_length_static < 0 /\ config_.extension_width_static = 0
  /\ \E k \in DOMAIN planner_.obstacles :
       planner_.obstacles[k].is_static /\ ~planner_.obstacles[k].is_soft

\* The box of a static obstacle with the static length margin.
C23_Box(obstacle) ==
  LongitudinalExtend([lo |-> obstacle.lo, hi |-> obstacle.hi],
                     config_.extension_length_static)

\* The accepted polygons after the first n obstacles of a frame, as C23 tells
\* it: an obstacle that is static goes into the first accepted polygon nearer
\* than the merge distance, which becomes the hull of both, and is appended if
\* there is none.
RECURSIVE C23_Accepted(_, _)
C23_Accepted(obstacles, n) ==
  IF n = 0 THEN <<>>
  ELSE LET accepted == C23_Accepted(obstacles, n - 1)
           obstacle == obstacles[n]
           near == {k \in DOMAIN accepted :
                      DistanceTo(C23_Box(obstacle), accepted[k]) <
                        config_.static_obstacle_distance_criteria}
       IN IF obstacle.virtual \/ obstacle.has_traj THEN accepted
          ELSE IF near = {} THEN Append(accepted, C23_Box(obstacle))
          ELSE LET first == CHOOSE k \in near : \A o \in near : k <= o
               IN [accepted EXCEPT
                     ![first] = ComputeConvexHull(C23_Box(obstacle), accepted[first])]

\* The corner points of a polygon as the engine is given them.
Inflated(poly) ==
  [lo |-> poly.lo - GetCollisionRadius(planner_) - config_.pts_offset_x,
   hi |-> poly.hi + GetCollisionRadius(planner_) - config_.pts_offset_x,
   written |-> TRUE]

\* C23: with merging enabled, the static obstacles registered with the
\* engine are the accepted polygons, one entry each in the order of their
\* acceptance: every static obstacle, in input order, is merged into the
\* first accepted polygon nearer than the merge distance (the hull of both)
\* or appended, with at most one merge per obstacle and no second look at a
\* merged polygon.  Two boxes nearer than the merge distance give one entry,
\* two boxes farther apart give two.
C23_GreedyMerge ==
  (Registered /\ config_.merge_static_obstacles) =>
    LET accepted == C23_Accepted(call.obstacles, Len(call.obstacles))
        entries == StaticEntries(planner_)
        statics == SelectSeq(call.obstacles,
                             LAMBDA ob : ~ob.virtual /\ ~ob.has_traj)
    IN /\ Len(entries) = Len(accepted)
       /\ Len(statics) = 2 =>
            Len(entries) =
              (IF DistanceTo(C23_Box(statics[1]), C23_Box(statics[2])) <
                    config_.static_obstacle_distance_criteria
               THEN 1 ELSE 2)
       /\ \A k \in DOMAIN entries :
            \A i \in DOMAIN entries[k].pts :
              entries[k].pts[i] = Inflated(accepted[k])

\* Three static obstacles came in the order 1, 5, 4 with the length margin
\* 0.6 m: the fourth, near both, went into the first; the two entries that
\* remain are nearer to each other than the merge distance and both were kept.
C23_Witness ==
  /\ Registered /\ config_.merge_static_obstacles
  /\ config_.extension_length_static = 6
  /\ Len(call.obstacles) = 3
  /\ \A i \in 1..3 : ~call.obstacles[i].virtual /\ ~call.obstacles[i].has_traj
  /\ Len(StaticEntries(planner_)) = 2
  /\ StaticEntries(planner_)[1].pts[1] = Inflated([lo |-> 97, hi |-> 173])
  /\ StaticEntries(planner_)[2].pts[1] = Inflated([lo |-> 177, hi |-> 203])
  /\ DistanceTo([lo |-> 97, hi |-> 173], [lo |-> 177, hi |-> 203]) <
       config_.static_obstacle_distance_criteria

\* C24: in one pass no virtual obstacle is registered, every other obstacle
\* without a predicted trajectory goes into the static set only, and every
\* other obstacle with a predicted trajectory is registered once, as a
\* dynamic and soft obstacle with the N boxes predicted for the times
\* t0 + i * ts, i = 0..N-1; no obstacle is registered both ways.
C24_StaticOrDynamic ==
  Registered =>
    LET N == GetNCMiqpPlanner(planner_)
        ts == GetTsCMiqpPlanner(planner_)
        t0 == call.init_point.relative_time
        dyn == SelectSeq(call.obstacles, LAMBDA ob : ~ob.virtual /\ ob.has_traj)
        stat == SelectSeq(call.obstacles, LAMBDA ob : ~ob.virtual /\ ~ob.has_traj)
        D == DynamicEntries(planner_)
        S == StaticEntries(planner_)
    IN /\ Len(D) = Len(dyn)
       /\ \A k \in DOMAIN D :
            /\ D[k].is_soft
            /\ Len(D[k].pts) = N
            /\ \A i \in 0..(N - 1) :
                 LET moved == (dyn[k].vel * (t0 + i * ts)) \div 100
                 IN D[k].pts[i + 1] =
                      Inflated(LongitudinalExtend(
                        [lo |-> dyn[k].lo + moved, hi |-> dyn[k].hi + moved],
                        config_.extension_length_dynamic))
       /\ Len(S) <= Len(stat)
       /\ ~config_.merge_static_obstacles =>
            /\ Len(S) = Len(stat)
            /\ \A k \in DOMAIN S :
                 /\ Len(S[k].pts) = N
                 /\ \A i \in 1..N : S[k].pts[i] = Inflated(C23_Box(stat[k]))
       /\ stat = <<>> => S = <<>>
       /\ Len(planner_.obstacles) = Len(S) + Len(D)
       /\ CountOf(planner_, "AddObstacle") = Len(S) + Len(D)

\* A frame with a virtual obstacle that has a predicted trajectory, a moving
\* and a standing obstacle: one dynamic and one static entry, the dynamic one
\* with boxes that move over the horizon.
C24_Witness ==
  /\ Registered /\ Len(call.obstacles) = 3
  /\ call.obstacles[1].virtual /\ call.obstacles[1].has_traj
  /\ Len(DynamicEntries(planner_)) = 1 /\ Len(StaticEntries(planner_)) = 1
  /\ LET d == DynamicEntries(planner_)[1]
     IN d.pts[1].lo < d.pts[Len(d.pts)].lo /\ d.is_soft
====
